---- MODULE Spec2Model ----
(***************************************************************************)
(* USB Sentry: the trust ledger (core/trust.py), the policy evaluator      *)
(* (core/policy.py) and the enforcement coordinator (main.py) as a state   *)
(* machine.  Every thread of the program is a process of the model:        *)
(*   - the device-watcher thread, which runs handle_usb_event;             *)
(*   - one start_audit_async thread per allowed storage Add;               *)
(*   - one watchdog observer thread per watched mount path, which runs     *)
(*     activity_callback for each file event;                              *)
(*   - the maintenance_loop thread (idle sweep);                           *)
(*   - one enforce_block_persistent thread per blocked connect / decline.  *)
(* The program takes no lock, so the ledger operations of the observer and *)
(* maintenance threads are split at the points where another thread can    *)
(* run between a read and the write that depends on it.                    *)
(***************************************************************************)
EXTENDS Integers, Sequences, FiniteSets, TLC

(* ------------------------------ bounds -------------------------------- *)
\* Add events delivered by the device watcher.
MaxAdds == 2
\* File-activity samples emitted by the activity watcher.
MaxSamples == 1
\* The clock stops here (seconds).
MaxNow == 31

\* Reports and clock of the single-caller specification.
SeqMaxReports == 12
SeqMaxNow == 122
\* Reports that carry an executable or a large file, per record.
SeqMaxHeavy == 1
\* unmount requests are counted modulo this
RequestMod == 2

(* ------------------------- program constants -------------------------- *)
MAX_FILES_PER_MIN == 10
MAX_DATA_MB == 100
\* PROMOTION_TIME_MIN = 0.5 minutes
PROMOTION_TIME_SECS == 30
\* timedelta(minutes=1)
WINDOW_SECS == 60

(* ------------------------------ inputs -------------------------------- *)
Ids == {"d1"}
Paths == {"/media/usb"}
\* size_mb of a sample, in whole MB
SampleSizes == {0, 101}
\* seconds the clock may jump between two steps
ClockSteps == {PROMOTION_TIME_SECS + 1}
\* the policy documents the engine may be constructed from
PolicyDocs ==
  { [allowlist |-> <<>>, blocklist |-> <<>>, default_action |-> "block"],
    [allowlist |-> <<>>, blocklist |-> <<>>, default_action |-> "allow"],
    [allowlist |-> <<"d1">>, blocklist |-> <<>>, default_action |-> "block"],
    [allowlist |-> <<>>, blocklist |-> <<"d1">>, default_action |-> "allow"],
    [allowlist |-> <<"d1">>, blocklist |-> <<"d1">>, default_action |-> "block"] }

(* ------------------------------ enums --------------------------------- *)
DETECTED == "DETECTED"
UNAUTHORIZED == "UNAUTHORIZED"
MONITORED == "MONITORED"
AUTHORIZED == "AUTHORIZED"
SUSPICIOUS == "SUSPICIOUS"
BLOCKED == "BLOCKED"
ALLOW == "allow"
BLOCK == "block"
ALERT == "alert"

NoId == "-"
NoDev == [id |-> NoId, ev |-> 0]
NoEntry == [device |-> NoDev, mount_path |-> "-"]

VARIABLES
  now,                       \* datetime.now(), in seconds
  allowlist, blocklist,      \* PolicyEngine lists
  default_action,            \* PolicyEngine.default_action
  devices,                   \* TrustManager.devices, in insertion order
  active_devices,            \* main.active_devices: id -> {device, mount_path}
  blocked_devices_connected, \* main.blocked_devices_connected
  observers,                 \* FileAuditor.observers: path -> observer thread
  audits,                    \* running start_audit_async threads, by Add event
  maint,                     \* the maintenance_loop thread
  enforcers,                 \* running enforce_block_persistent threads per id
  connected,                 \* devices plugged in (Add seen, no Remove since)
  mounts,                    \* the OS mount table: id -> {path, mode}
  last_eval,                 \* what the last PolicyEngine.evaluate was given and returned
  prompt_log,                \* every authorization prompt surfaced, in order
  removes,                   \* Remove events handled per id
  adds, samples,             \* events delivered so far
  unmount_requests,          \* unmount_device calls made per id, modulo RequestMod
  seq,                       \* the last ledger call made by a single caller, and its result
  policy_file,               \* the policy document on disk (PolicyEngine.policy_path)
  DEFAULT_CONFIG,            \* config.DEFAULT_CONFIG, a module-level dictionary
  config                     \* what the last load_config call returned

vars == << now, allowlist, blocklist, default_action, devices, active_devices,
           blocked_devices_connected, observers, audits, maint, enforcers,
           connected, mounts, last_eval, prompt_log, removes, adds, samples,
           unmount_requests, seq, policy_file, DEFAULT_CONFIG, config >>

(* ----------------------------- trust.py ------------------------------- *)
Has(devs, id) == \E i \in 1..Len(devs) : devs[i].device_id = id
IndexOf(devs, id) == CHOOSE i \in 1..Len(devs) : devs[i].device_id = id
Rec(devs, id) == devs[IndexOf(devs, id)]
Put(devs, id, r) == [devs EXCEPT ![IndexOf(devs, id)] = r]

\* DeviceTrustState(device_id=..., state=...): the three timestamps default to now
NewRecord(id, st, t) ==
  [ device_id |-> id, state |-> st, first_seen |-> t, last_seen |-> t,
    files_accessed |-> 0, data_transferred_mb |-> 0,
    window_start |-> t, window_files |-> 0, executable_detected |-> FALSE ]

\* faulty variant: the window is never reset
log_activity_NoReset(r, t, size_mb, is_executable) ==
  [ r EXCEPT !.last_seen = t,
             !.files_accessed = @ + 1,
             !.data_transferred_mb = @ + size_mb,
             !.executable_detected = @ \/ is_executable,
             !.window_files = @ + 1 ]

log_activity(r, t, size_mb, is_executable) ==
  LET reset == t - r.window_start > WINDOW_SECS IN
  [ r EXCEPT !.last_seen = t,
             !.files_accessed = @ + 1,
             !.data_transferred_mb = @ + size_mb,
             !.executable_detected = @ \/ is_executable,
             !.window_start = IF reset THEN t ELSE @,
             !.window_files = (IF reset THEN 0 ELSE @) + 1 ]

\* faulty variant: the rate and data rules fire at the threshold already
Escalates_AtThreshold(r) ==
  \/ r.executable_detected
  \/ r.window_files >= MAX_FILES_PER_MIN
  \/ r.data_transferred_mb >= MAX_DATA_MB
\* faulty variant: the rate rule fires on any file of the window
Escalates_AnyFile(r) ==
  \/ r.executable_detected
  \/ r.window_files > 0
  \/ r.data_transferred_mb > MAX_DATA_MB

\* evaluate, "1. Check Escalation": the three rules that set SUSPICIOUS
Escalates(r) ==
  \/ r.executable_detected
  \/ r.window_files > MAX_FILES_PER_MIN
  \/ r.data_transferred_mb > MAX_DATA_MB

\* faulty variant: promotion already at the threshold
PromotionDue_AtThreshold(r, t) ==
  r.state = MONITORED /\ t - r.first_seen >= PROMOTION_TIME_SECS

\* evaluate, "2. Check Promotion": the test before the write of AUTHORIZED
PromotionDue(r, t) ==
  r.state = MONITORED /\ t - r.first_seen > PROMOTION_TIME_SECS

\* faulty variant: the promotion test placed before the escalation rules
EvalOutcome_PromoteFirst(r, t) ==
  IF PromotionDue(r, t) THEN "promote"
  ELSE IF Escalates(r) THEN "escalate"
  ELSE "keep"

\* evaluate, lines 58-77: which branch the rules take, in the order of the code
EvalOutcome(r, t) ==
  IF Escalates(r) THEN "escalate"
  ELSE IF PromotionDue(r, t) THEN "promote"
  ELSE "keep"

\* faulty variant: a SUSPICIOUS record that trips no rule any more is MONITORED again
evaluate_Recovers(r, t) ==
  LET out == EvalOutcome(r, t) IN
  IF out = "escalate" THEN [r EXCEPT !.state = SUSPICIOUS]
  ELSE IF out = "promote" THEN [r EXCEPT !.state = AUTHORIZED]
  ELSE IF r.state = SUSPICIOUS THEN [r EXCEPT !.state = MONITORED]
  ELSE r

\* evaluate, lines 52-84: the record it leaves (it returns the record's state)
evaluate(r, t) ==
  LET out == EvalOutcome(r, t) IN
  IF out = "escalate" THEN [r EXCEPT !.state = SUSPICIOUS]
  ELSE IF out = "promote" THEN [r EXCEPT !.state = AUTHORIZED]
  ELSE r

\* faulty variant: a second registration resets the record
register_device_Overwrites(devs, id, st, t) ==
  IF Has(devs, id) THEN Put(devs, id, NewRecord(id, st, t))
  ELSE Append(devs, NewRecord(id, st, t))
register_device(devs, id, st, t) ==
  IF Has(devs, id) THEN devs ELSE Append(devs, NewRecord(id, st, t))

\* faulty variant: the new state is not written
update_state_Ignored(devs, id, st) == devs

update_state(devs, id, st) ==
  IF Has(devs, id) THEN Put(devs, id, [Rec(devs, id) EXCEPT !.state = st]) ELSE devs

\* faulty variant: an identifier without a record reads as MONITORED
get_state_UnknownMonitored(devs, id) ==
  IF Has(devs, id) THEN Rec(devs, id).state ELSE MONITORED
get_state(devs, id) ==
  IF Has(devs, id) THEN Rec(devs, id).state ELSE UNAUTHORIZED

\* report_activity, lines 101-112, run without interruption: the ledger it leaves;
\* it returns the state of the record afterwards, UNAUTHORIZED without a record
\* faulty variant: the rules are applied before the sample is logged
report_activity_EvaluateFirst(devs, id, t, size_mb, is_executable) ==
  IF ~Has(devs, id) THEN devs
  ELSE IF Rec(devs, id).state = BLOCKED THEN devs
  ELSE Put(devs, id, log_activity(evaluate(Rec(devs, id), t), t, size_mb, is_executable))
\* faulty variant: a report for an identifier without a record creates one
report_activity_Registers(devs, id, t, size_mb, is_executable) ==
  LET d2 == register_device(devs, id, MONITORED, t) IN
  IF Rec(d2, id).state = BLOCKED THEN d2
  ELSE Put(d2, id, evaluate(log_activity(Rec(d2, id), t, size_mb, is_executable), t))
report_activity(devs, id, t, size_mb, is_executable) ==
  IF ~Has(devs, id) THEN devs
  ELSE IF Rec(devs, id).state = BLOCKED THEN devs
  ELSE Put(devs, id, evaluate(log_activity(Rec(devs, id), t, size_mb, is_executable), t))

\* check_idle_promotions, lines 119-128, run without interruption
SweepHit(r, t) == r.state = MONITORED /\ evaluate(r, t).state = AUTHORIZED
check_idle_promotions(devs, t) ==
  LET hits == SelectSeq(devs, LAMBDA r : SweepHit(r, t)) IN
  [devices |-> [i \in 1..Len(devs) |->
                  IF devs[i].state = MONITORED THEN evaluate(devs[i], t) ELSE devs[i]],
   promoted_ids |-> [i \in 1..Len(hits) |-> hits[i].device_id]]

(* ----------------------------- policy.py ------------------------------ *)
InList(l, id) == \E i \in 1..Len(l) : l[i] = id

\* faulty variant: an unseen device gets the default action (no progressive trust)
PolicyEvaluate_DefaultForUnknown(bl, al, devs, dflt, id) ==
  IF InList(bl, id) THEN BLOCK
  ELSE IF InList(al, id) THEN ALLOW
  ELSE LET s == get_state(devs, id) IN
       IF s \in {MONITORED, AUTHORIZED} THEN ALLOW
       ELSE IF s \in {SUSPICIOUS, BLOCKED} THEN BLOCK
       ELSE dflt

\* faulty variant: the allowlist consulted before the blocklist
PolicyEvaluate_AllowFirst(bl, al, devs, dflt, id) ==
  IF InList(al, id) THEN ALLOW
  ELSE IF InList(bl, id) THEN BLOCK
  ELSE LET s == get_state(devs, id) IN
       IF s \in {UNAUTHORIZED, MONITORED, AUTHORIZED} THEN ALLOW
       ELSE IF s \in {SUSPICIOUS, BLOCKED} THEN BLOCK
       ELSE dflt

\* faulty variant: SUSPICIOUS missing from the blocking states
PolicyEvaluate_SuspiciousAllowed(bl, al, devs, dflt, id) ==
  IF InList(bl, id) THEN BLOCK
  ELSE IF InList(al, id) THEN ALLOW
  ELSE LET s == get_state(devs, id) IN
       IF s \in {UNAUTHORIZED, MONITORED, AUTHORIZED, SUSPICIOUS} THEN ALLOW
       ELSE IF s = BLOCKED THEN BLOCK
       ELSE dflt

\* PolicyEngine.evaluate: the action returned
PolicyEvaluate(bl, al, devs, dflt, id) ==
  IF InList(bl, id) THEN BLOCK
  ELSE IF InList(al, id) THEN ALLOW
  ELSE LET s == get_state(devs, id) IN
       IF s = UNAUTHORIZED THEN ALLOW
       ELSE IF s = MONITORED THEN ALLOW
       ELSE IF s = AUTHORIZED THEN ALLOW
       ELSE IF s \in {SUSPICIOUS, BLOCKED} THEN BLOCK
       ELSE dflt

\* faulty variant: the device is registered with register_device's default state
PolicyRegister_DefaultState(bl, al, devs, id, t) ==
  IF InList(bl, id) \/ InList(al, id) THEN devs
  ELSE IF get_state(devs, id) = UNAUTHORIZED
       THEN register_device(devs, id, UNAUTHORIZED, t)
       ELSE devs
\* faulty variant: the ledger consulted (and the device registered) before the lists
PolicyRegister_BeforeLists(bl, al, devs, id, t) ==
  IF get_state(devs, id) = UNAUTHORIZED
  THEN register_device(devs, id, MONITORED, t)
  ELSE devs

\* PolicyEngine.evaluate: the ledger it leaves
PolicyRegister(bl, al, devs, id, t) ==
  IF InList(bl, id) \/ InList(al, id) THEN devs
  ELSE IF get_state(devs, id) = UNAUTHORIZED
       THEN register_device(devs, id, MONITORED, t)
       ELSE devs

\* faulty variant: the identifier is appended without the membership test
add_to_list_Always(l, id) == Append(l, id)
add_to_list(l, id) == IF InList(l, id) THEN l ELSE Append(l, id)

(* ---- the policy document and PolicyEngine construction ---- *)
\* a default_action value in the document that is not a string (default_action: 1)
NonString == "<int>"
Absent == [kind |-> "absent", allowlist |-> <<>>, blocklist |-> <<>>, default_action |-> "block"]
Unparsable ==
  [kind |-> "unparsable", allowlist |-> <<>>, blocklist |-> <<>>, default_action |-> "block"]
\* a document that parses to a mapping; a missing key reads as its default
Mapping(al, bl, dflt) ==
  [kind |-> "mapping", allowlist |-> al, blocklist |-> bl, default_action |-> dflt]
PolicyFile(doc) == Mapping(doc.allowlist, doc.blocklist, doc.default_action)

\* str.upper() on the spellings the documents use
Upper(s) ==
  CASE s \in {"allow", "Allow"} -> "ALLOW"
    [] s \in {"block", "Block"} -> "BLOCK"
    [] s = "alert" -> "ALERT"
    [] s = "audit" -> "AUDIT"
    [] OTHER -> s
\* PolicyAction.__members__ and PolicyAction[name]
Members == {"ALLOW", "BLOCK", "ALERT"}
PolicyActionOf(name) ==
  CASE name = "ALLOW" -> ALLOW [] name = "BLOCK" -> BLOCK [] OTHER -> ALERT

\* PolicyEngine.__init__ before load_policy
NewEngine == [allowlist |-> <<>>, blocklist |-> <<>>, default_action |-> BLOCK]

\* load_policy: lines 33 and 34 assign the lists, line 35 raises AttributeError on
\* a default_action that has no upper(), and the handler of line 40 only logs
load_policy(file, self) ==
  IF file.kind = "absent" THEN self
  ELSE IF file.kind = "unparsable" THEN self
  ELSE LET s1 == [self EXCEPT !.allowlist = file.allowlist,
                              !.blocklist = file.blocklist]
       IN IF file.default_action = NonString THEN s1
          ELSE IF Upper(file.default_action) \in Members
               THEN [s1 EXCEPT !.default_action = PolicyActionOf(Upper(file.default_action))]
               ELSE s1

\* _save_policy: the document is rewritten from the engine's fields; a write that
\* fails (ok = FALSE) is logged and leaves the document as it was
save_policy(file, al, bl, dflt, ok) == IF ok THEN Mapping(al, bl, dflt) ELSE file
\* the document after add_to_allowlist / add_to_blocklist turned list l into l2
SavedAfterAdd(file, l, l2, al, bl, dflt, ok) ==
  IF l2 = l THEN file ELSE save_policy(file, al, bl, dflt, ok)

(* ----------------------------- config.py ------------------------------ *)
\* a value of a configuration dictionary: a nested dictionary or a scalar
D(items) == [dict |-> TRUE, items |-> items, v |-> ""]
S(v) == [dict |-> FALSE, items |-> <<>>, v |-> v]

\* DEFAULT_CONFIG as the module defines it
BuiltinConfig ==
  [app |-> D([name |-> "USB Sentry", version |-> "1.0.0"]),
   interactive |-> D([geometry |-> "100x30", theme |-> "default"]),
   logging |-> D([level |-> "INFO", console_output |-> "True"])]

\* the files load_config may be pointed at; a mapping has scalar leaves at depth
\* one or two
NoMapping == <<>>
ConfigFile(kind, data) == [kind |-> kind, data |-> data]
ConfigFiles ==
  { ConfigFile("missing", NoMapping), ConfigFile("empty", NoMapping),
    ConfigFile("unparsable", NoMapping),
    ConfigFile("mapping", [interactive |-> D([geometry |-> "120x40"])]),
    ConfigFile("mapping", [interactive |-> D([theme |-> "dark"])]),
    ConfigFile("mapping", [logging |-> D([level |-> "DEBUG"])]),
    ConfigFile("mapping", [app |-> D([edition |-> "pro"])]),
    ConfigFile("mapping", [debug |-> S("on")]),
    ConfigFile("mapping", [interactive |-> S("off")]),
    ConfigFile("mapping", [plugins |-> D([audit |-> "on"])]) }

\* dict.update of one nested dictionary by another, in place
Overlay(d, u) == [k \in DOMAIN d \cup DOMAIN u |-> IF k \in DOMAIN u THEN u[k] ELSE d[k]]

\* line 43 and deep_update, lines 45-51: merged is a shallow copy, so a nested
\* dictionary of merged is the very object DEFAULT_CONFIG holds, and line 48
\* updates it in place; this is DEFAULT_CONFIG after deep_update(merged, u)
SharedAfter(dc, u) ==
  [s \in DOMAIN dc |->
     IF s \in DOMAIN u /\ u[s].dict /\ dc[s].dict
     THEN D(Overlay(dc[s].items, u[s].items)) ELSE dc[s]]

\* what deep_update(merged, u) returns
Merged(dc, u) ==
  [s \in DOMAIN dc \cup DOMAIN u |->
     IF s \notin DOMAIN u THEN dc[s]
     ELSE IF ~u[s].dict THEN u[s]
     ELSE IF s \in DOMAIN dc /\ dc[s].dict THEN D(Overlay(dc[s].items, u[s].items))
     ELSE u[s]]

\* load_config(config_path): the value returned and DEFAULT_CONFIG afterwards
load_config(dc, file) ==
  IF file.kind = "missing" THEN [ret |-> dc, defaults |-> dc]
  ELSE IF file.kind = "unparsable" THEN [ret |-> dc, defaults |-> dc]
  ELSE IF file.kind = "empty" THEN [ret |-> dc, defaults |-> dc]
  ELSE [ret |-> Merged(dc, file.data), defaults |-> SharedAfter(dc, file.data)]

(* ------------------------------ main.py ------------------------------- *)
Without(f, k) == [x \in DOMAIN f \ {k} |-> f[x]]
With(f, k, v) == [x \in DOMAIN f \cup {k} |-> IF x = k THEN v ELSE f[x]]

\* promote_device, line 52: the guard "active_devices.pop(id, None) is None"
PromoteGuard(ad, id) == id \in DOMAIN ad
\* faulty variant: the entry is read but not removed
PopActive_Keep(ad, id) == ad

\* promote_device, line 52: what pop leaves in active_devices
PopActive(ad, id) == Without(ad, id)

MountedAt(p) == {id \in DOMAIN mounts : mounts[id].path = p}

\* enforce_block_persistent threads of one id: fresh ones were started after the
\* last Remove of the id, stale ones before it and have not run the loop test
\* (line 140) since, overdue ones passed the loop test after that Remove
NoTasks == [fresh |-> 0, stale |-> 0, overdue |-> 0]
Running(e) == e.fresh + e.stale + e.overdue
\* Thread(target=enforce_block_persistent, ...).start()
StartTask(e) == [e EXCEPT !.fresh = @ + 1]
\* what a Remove makes of the running threads
AfterRemove(e) == [fresh |-> 0, stale |-> e.stale + e.fresh, overdue |-> e.overdue]

\* no ledger call made yet
NoCall == [op |-> "-", ret |-> "-", promoted |-> <<>>, burst |-> 0]

IdleMaint ==
  [pc |-> "sleep", todo |-> <<>>, n0 |-> 0, promoted |-> <<>>, cur |-> NoId, info |-> NoEntry]

\* PolicyEngine(policy_path): the engine constructed from one of the documents
EngineInit(files) ==
  /\ policy_file \in files
  /\ allowlist = load_policy(policy_file, NewEngine).allowlist
  /\ blocklist = load_policy(policy_file, NewEngine).blocklist
  /\ default_action = load_policy(policy_file, NewEngine).default_action

\* everything but the policy engine, at program start
ProgramInit ==
  /\ now = 0
  /\ devices = <<>>
  /\ active_devices = <<>>
  /\ blocked_devices_connected = {}
  /\ observers = <<>>
  /\ audits = <<>>
  /\ maint = IdleMaint
  /\ enforcers = [id \in Ids |-> NoTasks]
  /\ connected = [id \in Ids |-> FALSE]
  /\ mounts = <<>>
  /\ last_eval = [id |-> NoId, action |-> "-", state_before |-> "-",
                  in_block |-> FALSE, in_allow |-> FALSE]
  /\ prompt_log = <<>>
  /\ removes = [id \in Ids |-> 0]
  /\ adds = 0
  /\ samples = 0
  /\ unmount_requests = [id \in Ids |-> 0]
  /\ seq = NoCall
  /\ DEFAULT_CONFIG = BuiltinConfig
  /\ config = BuiltinConfig

Init ==
  /\ EngineInit({PolicyFile(doc) : doc \in PolicyDocs})
  /\ ProgramInit

(* The clock. *)
Advance(d) ==
  /\ now + d <= MaxNow
  /\ now' = now + d
  /\ UNCHANGED << allowlist, blocklist, default_action, devices, active_devices,
                  blocked_devices_connected, observers, audits, maint, enforcers,
                  connected, mounts, last_eval, prompt_log, removes, adds, samples >>
  /\ UNCHANGED << unmount_requests, seq >>
  /\ UNCHANGED << policy_file, DEFAULT_CONFIG, config >>

(* The OS mounts a plugged-in storage device (automount lags the Add event). *)
OsMount(id, p) ==
  /\ connected[id]
  /\ id \notin DOMAIN mounts
  /\ MountedAt(p) = {}
  /\ mounts' = With(mounts, id, [path |-> p, mode |-> "rw", ro_requested |-> FALSE])
  /\ UNCHANGED << now, allowlist, blocklist, default_action, devices, active_devices,
                  blocked_devices_connected, observers, audits, maint, enforcers,
                  connected, last_eval, prompt_log, removes, adds, samples >>
  /\ UNCHANGED << unmount_requests, seq >>
  /\ UNCHANGED << policy_file, DEFAULT_CONFIG, config >>

(* handle_usb_event, DeviceAction.ADD (storage device). *)
AddEvent(id) ==
  /\ adds < MaxAdds
  /\ LET action == PolicyEvaluate(blocklist, allowlist, devices, default_action, id)
         devs2 == PolicyRegister(blocklist, allowlist, devices, id, now)
         trust_state == get_state(devs2, id)
         ev == adds + 1
     IN /\ devices' = devs2
        /\ last_eval' = [id |-> id, action |-> action,
                         state_before |-> get_state(devices, id),
                         in_block |-> InList(blocklist, id),
                         in_allow |-> InList(allowlist, id)]
        /\ IF action = BLOCK
           THEN /\ blocked_devices_connected' = blocked_devices_connected \cup {id}
                /\ enforcers' = [enforcers EXCEPT ![id] = StartTask(@)]
                /\ audits' = audits
           ELSE /\ audits' = With(audits, ev,
                      [dev |-> [id |-> id, ev |-> ev], trust_state |-> trust_state,
                       pc |-> "wait", mount_path |-> "-", tries |-> 0])
                /\ UNCHANGED << blocked_devices_connected, enforcers >>
  /\ adds' = adds + 1
  /\ connected' = [connected EXCEPT ![id] = TRUE]
  /\ UNCHANGED << now, allowlist, blocklist, default_action, active_devices, observers,
                  maint, mounts, prompt_log, removes, samples >>
  /\ UNCHANGED << unmount_requests, seq >>
  /\ UNCHANGED << policy_file, DEFAULT_CONFIG, config >>

(* handle_usb_event, DeviceAction.REMOVE. *)
RemoveEvent(id) ==
  /\ connected[id]
  /\ active_devices' = Without(active_devices, id)
  /\ blocked_devices_connected' = blocked_devices_connected \ {id}
  /\ connected' = [connected EXCEPT ![id] = FALSE]
  /\ mounts' = Without(mounts, id)
  /\ removes' = [removes EXCEPT ![id] = @ + 1]
  /\ enforcers' = [enforcers EXCEPT ![id] = AfterRemove(@)]
  /\ UNCHANGED << now, allowlist, blocklist, default_action, devices, observers, audits,
                  maint, last_eval, prompt_log, adds, samples >>
  /\ UNCHANGED << unmount_requests, seq >>
  /\ UNCHANGED << policy_file, DEFAULT_CONFIG, config >>

(* ---- start_audit_async: one thread per allowed storage Add ---- *)
\* wait_for_mount: the attempt that ends the bounded poll.  An attempt that finds
\* no mount and is not the last changes nothing but the attempt counter; the last
\* one returns None and the thread ends with "Could not determine mount point".
AuditPoll(k) ==
  /\ k \in DOMAIN audits
  /\ audits[k].pc = "wait"
  /\ LET a == audits[k] IN
       IF a.dev.id \in DOMAIN mounts
       THEN audits' = [audits EXCEPT ![k].pc = "found",
                                      ![k].mount_path = mounts[a.dev.id].path]
       ELSE audits' = Without(audits, k)
  /\ UNCHANGED << now, allowlist, blocklist, default_action, devices, active_devices,
                  blocked_devices_connected, observers, maint, enforcers, connected,
                  mounts, last_eval, prompt_log, removes, adds, samples >>
  /\ UNCHANGED << unmount_requests, seq >>
  /\ UNCHANGED << policy_file, DEFAULT_CONFIG, config >>

\* lines 199-206: "mount -o remount,ro" for a device that was MONITORED at the Add;
\* the mount table remembers that the remount of the mounted path was requested
AuditRemount(k, ok) ==
  /\ k \in DOMAIN audits
  /\ audits[k].pc = "found"
  /\ LET a == audits[k] IN
       IF a.trust_state = MONITORED /\ MountedAt(a.mount_path) # {}
       THEN mounts' = [m \in DOMAIN mounts |->
                         IF mounts[m].path = a.mount_path
                         THEN [mounts[m] EXCEPT !.mode = IF ok THEN "ro" ELSE @,
                                                !.ro_requested = TRUE]
                         ELSE mounts[m]]
       ELSE mounts' = mounts
  /\ audits' = [audits EXCEPT ![k].pc = "track"]
  /\ UNCHANGED << now, allowlist, blocklist, default_action, devices, active_devices,
                  blocked_devices_connected, observers, maint, enforcers, connected,
                  last_eval, prompt_log, removes, adds, samples >>
  /\ UNCHANGED << unmount_requests, seq >>
  /\ UNCHANGED << policy_file, DEFAULT_CONFIG, config >>

\* lines 209-210: track the device for idle promotion
AuditTrack(k) ==
  /\ k \in DOMAIN audits
  /\ audits[k].pc = "track"
  /\ LET a == audits[k] IN
       active_devices' =
         IF a.trust_state = MONITORED
         THEN With(active_devices, a.dev.id, [device |-> a.dev, mount_path |-> a.mount_path])
         ELSE active_devices
  /\ audits' = [audits EXCEPT ![k].pc = "subscribe"]
  /\ UNCHANGED << now, allowlist, blocklist, default_action, devices,
                  blocked_devices_connected, observers, maint, enforcers, connected,
                  mounts, last_eval, prompt_log, removes, adds, samples >>
  /\ UNCHANGED << unmount_requests, seq >>
  /\ UNCHANGED << policy_file, DEFAULT_CONFIG, config >>

\* line 230 and FileAuditor.start_monitoring: a path already watched keeps its observer
AuditSubscribe(k) ==
  /\ k \in DOMAIN audits
  /\ audits[k].pc = "subscribe"
  /\ LET a == audits[k] IN
       observers' =
         IF a.mount_path \in DOMAIN observers THEN observers
         ELSE With(observers, a.mount_path,
                   [dev |-> a.dev, mount_path |-> a.mount_path, pc |-> "idle",
                    size_mb |-> 0, is_executable |-> FALSE, ret |-> "-"])
  /\ audits' = Without(audits, k)
  /\ UNCHANGED << now, allowlist, blocklist, default_action, devices, active_devices,
                  blocked_devices_connected, maint, enforcers, connected,
                  mounts, last_eval, prompt_log, removes, adds, samples >>
  /\ UNCHANGED << unmount_requests, seq >>
  /\ UNCHANGED << policy_file, DEFAULT_CONFIG, config >>

(* ---- wait_for_mount with its attempts counted ---- *)
\* wait_for_mount(device, timeout=10)
MOUNT_TIMEOUT == 10

\* a poll that gives up one attempt early
WaitOutcome_OneShort(tries, mounted) ==
  IF mounted THEN "found"
  ELSE IF tries + 2 < MOUNT_TIMEOUT THEN "retry" ELSE "give_up"
\* lines 119-126: attempt number tries + 1 of "for _ in range(timeout)"
WaitOutcome(tries, mounted) ==
  IF mounted THEN "found"
  ELSE IF tries + 1 < MOUNT_TIMEOUT THEN "retry" ELSE "give_up"

\* one attempt of the poll; after the last one start_audit_async takes its else
\* branch (lines 231-233), logs the warning and ends: the thread stays in the
\* table as "warned"
AuditTry(k) ==
  /\ k \in DOMAIN audits
  /\ audits[k].pc = "wait"
  /\ LET a == audits[k]
         out == WaitOutcome(a.tries, a.dev.id \in DOMAIN mounts)
     IN audits' =
          CASE out = "found" ->
                 [audits EXCEPT ![k].pc = "found", ![k].tries = @ + 1,
                                ![k].mount_path = mounts[a.dev.id].path]
            [] out = "retry" -> [audits EXCEPT ![k].tries = @ + 1]
            [] OTHER -> [audits EXCEPT ![k].pc = "warned", ![k].tries = @ + 1]
  /\ UNCHANGED << now, allowlist, blocklist, default_action, devices, active_devices,
                  blocked_devices_connected, observers, maint, enforcers, connected,
                  mounts, last_eval, prompt_log, removes, adds, samples >>
  /\ UNCHANGED << unmount_requests, seq >>
  /\ UNCHANGED << policy_file, DEFAULT_CONFIG, config >>

MountWaitNext ==
  \/ \E id \in Ids, p \in Paths : OsMount(id, p)
  \/ \E id \in Ids : AddEvent(id)
  \/ \E id \in Ids : RemoveEvent(id)
  \/ \E k \in DOMAIN audits : AuditTry(k)
  \/ \E k \in DOMAIN audits, ok \in BOOLEAN : AuditRemount(k, ok)
  \/ \E k \in DOMAIN audits : AuditTrack(k)
  \/ \E k \in DOMAIN audits : AuditSubscribe(k)

MountWaitSpec == Init /\ [][MountWaitNext]_vars

(* ---- promote_device, after the guard: the operator's answer ---- *)
\* check_mount_rw: the mount table lists the path with the rw option
check_mount_rw(mts, path) ==
  \E m \in DOMAIN mts : mts[m].path = path /\ mts[m].mode = "rw"

\* faulty variant: the mount flags are not read again after the remount
AcceptOutcome_NoVerify(res, mts, path) ==
  IF res = "error" THEN "error" ELSE "success"

\* lines 64-77: what the accept branch reports.  res is what the remount did:
\* "error" (the mount command failed), "rw" (it succeeded and took effect),
\* "ro" (it returned success and the mount is as it was)
AcceptOutcome(res, mts, path) ==
  IF res = "error" THEN "error"
  ELSE IF check_mount_rw(mts, path) THEN "success"
  ELSE "warning"

\* the open prompt of the thread "by", and the log with its answer filled in
OpenPrompt(log, by) ==
  CHOOSE i \in DOMAIN log : log[i].by = by /\ log[i].answer = "open"
Answered(log, by, answer, remount) ==
  [log EXCEPT ![OpenPrompt(log, by)].answer = answer,
              ![OpenPrompt(log, by)].remount = remount]

\* lines 58-77: accepted; the policy document is rewritten when the list grew
\* (the write succeeds here; PolicySpec also covers a write that fails)
AcceptEffects(id, path, res, by) ==
  /\ res = "rw" => MountedAt(path) # {}
  /\ allowlist' = add_to_list(allowlist, id)
  /\ policy_file' = SavedAfterAdd(policy_file, allowlist, allowlist', allowlist',
                                  blocklist, default_action, TRUE)
  /\ mounts' = IF res = "rw"
               THEN [m \in DOMAIN mounts |->
                       IF mounts[m].path = path
                       THEN [mounts[m] EXCEPT !.mode = "rw"] ELSE mounts[m]]
               ELSE mounts
  /\ prompt_log' = Answered(prompt_log, by, AcceptOutcome(res, mounts', path),
                            IF res = "error" THEN "failed" ELSE "ok")
  /\ UNCHANGED << blocklist, devices, blocked_devices_connected, enforcers >>

\* lines 78-87: declined
DeclineEffects(id, by) ==
  /\ blocklist' = add_to_list(blocklist, id)
  /\ policy_file' = SavedAfterAdd(policy_file, blocklist, blocklist', allowlist,
                                  blocklist', default_action, TRUE)
  /\ devices' = update_state(devices, id, BLOCKED)
  /\ blocked_devices_connected' = blocked_devices_connected \cup {id}
  /\ enforcers' = [enforcers EXCEPT ![id] = StartTask(@)]
  /\ prompt_log' = Answered(prompt_log, by, "declined", "-")
  /\ UNCHANGED << allowlist, mounts >>

\* the prompt a passed guard surfaces
Prompt(id, entry, by) ==
  [id |-> id, token |-> entry.device.ev, by |-> by, answer |-> "open", remount |-> "-",
   conn |-> IF connected[id] THEN removes[id] + 1 ELSE 0]

(* ---- watcher.py: USBFileHandler._notify ---- *)
\* what _notify can find out about the file of an event: whether its extension
\* is an executable one, whether its mode has S_IXUSR, whether it still exists,
\* and its size
FileTraits ==
  [ext_executable : BOOLEAN, mode_x : BOOLEAN, exists : BOOLEAN, size_mb : SampleSizes]
\* line 50 reads self.EXECUTABLE_EXTENSIONS, which neither USBFileHandler nor its
\* base class defines: the read raises AttributeError
HasExecutableExtensions == FALSE
\* line 55 reads stat.S_IXUSR, and lines 1-7 import no module stat: the read
\* raises NameError
StatImported == FALSE
\* lines 46-58: is_executable starts False; either error leaves the try block for
\* "except Exception: pass" with the value is_executable had
IsExecutable(f) ==
  IF ~HasExecutableExtensions THEN FALSE
  ELSE IF ~f.exists THEN f.ext_executable
  ELSE IF ~StatImported THEN f.ext_executable
  ELSE f.ext_executable \/ f.mode_x
\* lines 68-76: the sample handed to the callback
notify(f) ==
  [size_mb |-> IF f.exists THEN f.size_mb ELSE 0, is_executable |-> IsExecutable(f)]

(* ---- the observer thread of a watched path: activity_callback ---- *)
\* the activity watcher emits a sample for the path
FileEvent(p, size_mb, is_executable) ==
  /\ samples < MaxSamples
  /\ p \in DOMAIN observers
  /\ observers[p].pc = "idle"
  /\ MountedAt(p) # {}
  /\ observers' = [observers EXCEPT ![p].pc = "ra_check", ![p].size_mb = size_mb,
                                    ![p].is_executable = is_executable]
  /\ samples' = samples + 1
  /\ UNCHANGED << now, allowlist, blocklist, default_action, devices, active_devices,
                  blocked_devices_connected, audits, maint, enforcers, connected,
                  mounts, last_eval, prompt_log, removes, adds >>
  /\ UNCHANGED << unmount_requests, seq >>
  /\ UNCHANGED << policy_file, DEFAULT_CONFIG, config >>

\* faulty variant: a SUSPICIOUS result is handed to promote_device as well
ObsDone_SuspiciousPromotes(o, ret) ==
  [o EXCEPT !.pc = IF ret \in {AUTHORIZED, SUSPICIOUS} THEN "promote" ELSE "idle",
            !.ret = ret, !.size_mb = 0, !.is_executable = FALSE]
\* activity_callback, lines 223-228: what it does with the state report_activity
\* returned (SUSPICIOUS: the alert is printed and the callback returns)
ObsDone(o, ret) ==
  [o EXCEPT !.pc = IF ret = AUTHORIZED THEN "promote" ELSE "idle",
            !.ret = ret, !.size_mb = 0, !.is_executable = FALSE]

\* report_activity, lines 102-109: the two early returns
RaCheck(p) ==
  /\ p \in DOMAIN observers
  /\ observers[p].pc = "ra_check"
  /\ LET o == observers[p]
         id == o.dev.id
     IN observers' =
          IF ~Has(devices, id) THEN [observers EXCEPT ![p] = ObsDone(o, UNAUTHORIZED)]
          ELSE IF Rec(devices, id).state = BLOCKED
               THEN [observers EXCEPT ![p] = ObsDone(o, BLOCKED)]
               ELSE [observers EXCEPT ![p].pc = "ra_log"]
  /\ UNCHANGED << now, allowlist, blocklist, default_action, devices, active_devices,
                  blocked_devices_connected, audits, maint, enforcers, connected,
                  mounts, last_eval, prompt_log, removes, adds, samples >>
  /\ UNCHANGED << unmount_requests, seq >>
  /\ UNCHANGED << policy_file, DEFAULT_CONFIG, config >>

\* report_activity, line 111: log_activity
RaLog(p) ==
  /\ p \in DOMAIN observers
  /\ observers[p].pc = "ra_log"
  /\ LET o == observers[p]
         id == o.dev.id
     IN devices' = Put(devices, id,
                       log_activity(Rec(devices, id), now, o.size_mb, o.is_executable))
  /\ observers' = [observers EXCEPT ![p].pc = "eval1"]
  /\ UNCHANGED << now, allowlist, blocklist, default_action, active_devices,
                  blocked_devices_connected, audits, maint, enforcers, connected,
                  mounts, last_eval, prompt_log, removes, adds, samples >>
  /\ UNCHANGED << unmount_requests, seq >>
  /\ UNCHANGED << policy_file, DEFAULT_CONFIG, config >>

\* report_activity, line 112: evaluate up to the promotion test (trust.py 58-77)
ObsEval1(p) ==
  /\ p \in DOMAIN observers
  /\ observers[p].pc = "eval1"
  /\ LET o == observers[p]
         id == o.dev.id
         r == Rec(devices, id)
         out == EvalOutcome(r, now)
     IN IF out = "escalate"
        THEN /\ devices' = Put(devices, id, [r EXCEPT !.state = SUSPICIOUS])
             /\ observers' = [observers EXCEPT ![p] = ObsDone(o, SUSPICIOUS)]
        ELSE IF out = "promote"
             THEN /\ observers' = [observers EXCEPT ![p].pc = "eval2"]
                  /\ devices' = devices
             ELSE /\ observers' = [observers EXCEPT ![p] = ObsDone(o, r.state)]
                  /\ devices' = devices
  /\ UNCHANGED << now, allowlist, blocklist, default_action, active_devices,
                  blocked_devices_connected, audits, maint, enforcers, connected,
                  mounts, last_eval, prompt_log, removes, adds, samples >>
  /\ UNCHANGED << unmount_requests, seq >>
  /\ UNCHANGED << policy_file, DEFAULT_CONFIG, config >>

\* evaluate, lines 80-82: the write of AUTHORIZED
ObsEval2(p) ==
  /\ p \in DOMAIN observers
  /\ observers[p].pc = "eval2"
  /\ LET o == observers[p]
         id == o.dev.id
     IN /\ devices' = Put(devices, id, [Rec(devices, id) EXCEPT !.state = AUTHORIZED])
        /\ observers' = [observers EXCEPT ![p] = ObsDone(o, AUTHORIZED)]
  /\ UNCHANGED << now, allowlist, blocklist, default_action, active_devices,
                  blocked_devices_connected, audits, maint, enforcers, connected,
                  mounts, last_eval, prompt_log, removes, adds, samples >>
  /\ UNCHANGED << unmount_requests, seq >>
  /\ UNCHANGED << policy_file, DEFAULT_CONFIG, config >>

\* activity_callback line 228 -> promote_device line 52
ObsPromote(p) ==
  /\ p \in DOMAIN observers
  /\ observers[p].pc = "promote"
  /\ LET id == observers[p].dev.id IN
       IF PromoteGuard(active_devices, id)
       THEN /\ active_devices' = PopActive(active_devices, id)
            /\ prompt_log' = Append(prompt_log, Prompt(id, active_devices[id], "callback"))
            /\ observers' = [observers EXCEPT ![p].pc = "prompt"]
       ELSE /\ observers' = [observers EXCEPT ![p].pc = "return"]
            /\ UNCHANGED << active_devices, prompt_log >>
  /\ UNCHANGED << now, allowlist, blocklist, default_action, devices,
                  blocked_devices_connected, audits, maint, enforcers, connected,
                  mounts, last_eval, removes, adds, samples >>
  /\ UNCHANGED << unmount_requests, seq >>
  /\ UNCHANGED << policy_file, DEFAULT_CONFIG, config >>

\* promote_device line 53: the guard failed, return
ObsReturn(p) ==
  /\ p \in DOMAIN observers
  /\ observers[p].pc = "return"
  /\ observers' = [observers EXCEPT ![p].pc = "idle"]
  /\ UNCHANGED << now, allowlist, blocklist, default_action, devices, active_devices,
                  blocked_devices_connected, audits, maint, enforcers, connected,
                  mounts, last_eval, prompt_log, removes, adds, samples >>
  /\ UNCHANGED << unmount_requests, seq >>
  /\ UNCHANGED << policy_file, DEFAULT_CONFIG, config >>

ObsAccept(p, res) ==
  /\ p \in DOMAIN observers
  /\ observers[p].pc = "prompt"
  /\ AcceptEffects(observers[p].dev.id, observers[p].mount_path, res, "callback")
  /\ observers' = [observers EXCEPT ![p].pc = "idle"]
  /\ UNCHANGED << now, default_action, active_devices, audits, maint, connected,
                  last_eval, removes, adds, samples >>
  /\ UNCHANGED << unmount_requests, seq >>
  /\ UNCHANGED << DEFAULT_CONFIG, config >>

ObsDecline(p) ==
  /\ p \in DOMAIN observers
  /\ observers[p].pc = "prompt"
  /\ DeclineEffects(observers[p].dev.id, "callback")
  /\ observers' = [observers EXCEPT ![p].pc = "idle"]
  /\ UNCHANGED << now, default_action, active_devices, audits, maint, connected,
                  last_eval, removes, adds, samples >>
  /\ UNCHANGED << unmount_requests, seq >>
  /\ UNCHANGED << DEFAULT_CONFIG, config >>

(* ---- the maintenance_loop thread ---- *)
\* line 346: check_idle_promotions starts iterating self.devices.items()
SweepStart ==
  /\ maint.pc = "sleep"
  /\ maint' = [IdleMaint EXCEPT !.pc = "scan", !.n0 = Len(devices),
                                !.todo = [i \in 1..Len(devices) |-> devices[i].device_id]]
  /\ UNCHANGED << now, allowlist, blocklist, default_action, devices, active_devices,
                  blocked_devices_connected, observers, audits, enforcers, connected,
                  mounts, last_eval, prompt_log, removes, adds, samples >>
  /\ UNCHANGED << unmount_requests, seq >>
  /\ UNCHANGED << policy_file, DEFAULT_CONFIG, config >>

\* trust.py 122-123: the next item of the iteration and the MONITORED test
SweepScan ==
  /\ maint.pc = "scan"
  /\ maint' =
       IF Len(devices) # maint.n0
       THEN IdleMaint      \* RuntimeError: dictionary changed size (main.py 356-358)
       ELSE IF maint.todo = <<>>
            THEN [maint EXCEPT !.pc = "loop", !.cur = NoId]
            ELSE [maint EXCEPT !.cur = Head(maint.todo), !.todo = Tail(maint.todo),
                               !.pc = IF Rec(devices, Head(maint.todo)).state = MONITORED
                                      THEN "eval1" ELSE "scan"]
  /\ UNCHANGED << now, allowlist, blocklist, default_action, devices, active_devices,
                  blocked_devices_connected, observers, audits, enforcers, connected,
                  mounts, last_eval, prompt_log, removes, adds, samples >>
  /\ UNCHANGED << unmount_requests, seq >>
  /\ UNCHANGED << policy_file, DEFAULT_CONFIG, config >>

\* trust.py 125-127: evaluate up to the promotion test
SweepEval1 ==
  /\ maint.pc = "eval1"
  /\ LET id == maint.cur
         r == Rec(devices, id)
         out == EvalOutcome(r, now)
     IN IF out = "escalate"
        THEN /\ devices' = Put(devices, id, [r EXCEPT !.state = SUSPICIOUS])
             /\ maint' = [maint EXCEPT !.pc = "scan"]
        ELSE IF out = "promote"
             THEN /\ maint' = [maint EXCEPT !.pc = "eval2"]
                  /\ devices' = devices
             ELSE /\ maint' = [maint EXCEPT !.pc = "scan",
                                 !.promoted = IF r.state = AUTHORIZED
                                              THEN Append(@, id) ELSE @]
                  /\ devices' = devices
  /\ UNCHANGED << now, allowlist, blocklist, default_action, active_devices,
                  blocked_devices_connected, observers, audits, enforcers, connected,
                  mounts, last_eval, prompt_log, removes, adds, samples >>
  /\ UNCHANGED << unmount_requests, seq >>
  /\ UNCHANGED << policy_file, DEFAULT_CONFIG, config >>

\* evaluate, lines 80-82, then trust.py 126-127
SweepEval2 ==
  /\ maint.pc = "eval2"
  /\ devices' = Put(devices, maint.cur, [Rec(devices, maint.cur) EXCEPT !.state = AUTHORIZED])
  /\ maint' = [maint EXCEPT !.pc = "scan", !.promoted = Append(@, maint.cur)]
  /\ UNCHANGED << now, allowlist, blocklist, default_action, active_devices,
                  blocked_devices_connected, observers, audits, enforcers, connected,
                  mounts, last_eval, prompt_log, removes, adds, samples >>
  /\ UNCHANGED << unmount_requests, seq >>
  /\ UNCHANGED << policy_file, DEFAULT_CONFIG, config >>

\* main.py 347-348: the next promoted id and the membership test
MaintLoop ==
  /\ maint.pc = "loop"
  /\ maint' =
       IF maint.promoted = <<>> THEN IdleMaint
       ELSE [maint EXCEPT !.cur = Head(maint.promoted), !.promoted = Tail(maint.promoted),
                          !.pc = IF Head(maint.promoted) \in DOMAIN active_devices
                                 THEN "lookup" ELSE "loop"]
  /\ UNCHANGED << now, allowlist, blocklist, default_action, devices, active_devices,
                  blocked_devices_connected, observers, audits, enforcers, connected,
                  mounts, last_eval, prompt_log, removes, adds, samples >>
  /\ UNCHANGED << unmount_requests, seq >>
  /\ UNCHANGED << policy_file, DEFAULT_CONFIG, config >>

\* main.py 349: info = active_devices[dev_id]
MaintLookup ==
  /\ maint.pc = "lookup"
  /\ maint' =
       IF maint.cur \in DOMAIN active_devices
       THEN [maint EXCEPT !.info = active_devices[maint.cur], !.pc = "promote"]
       ELSE IdleMaint      \* KeyError (main.py 356-358)
  /\ UNCHANGED << now, allowlist, blocklist, default_action, devices, active_devices,
                  blocked_devices_connected, observers, audits, enforcers, connected,
                  mounts, last_eval, prompt_log, removes, adds, samples >>
  /\ UNCHANGED << unmount_requests, seq >>
  /\ UNCHANGED << policy_file, DEFAULT_CONFIG, config >>

\* main.py 354 -> promote_device line 52
MaintPromote ==
  /\ maint.pc = "promote"
  /\ LET id == maint.info.device.id IN
       IF PromoteGuard(active_devices, id)
       THEN /\ active_devices' = PopActive(active_devices, id)
            /\ prompt_log' = Append(prompt_log, Prompt(id, active_devices[id], "sweep"))
            /\ maint' = [maint EXCEPT !.pc = "prompt"]
       ELSE /\ maint' = [maint EXCEPT !.pc = "return"]
            /\ UNCHANGED << active_devices, prompt_log >>
  /\ UNCHANGED << now, allowlist, blocklist, default_action, devices,
                  blocked_devices_connected, observers, audits, enforcers, connected,
                  mounts, last_eval, removes, adds, samples >>
  /\ UNCHANGED << unmount_requests, seq >>
  /\ UNCHANGED << policy_file, DEFAULT_CONFIG, config >>

\* promote_device line 53
MaintReturn ==
  /\ maint.pc = "return"
  /\ maint' = [maint EXCEPT !.pc = "loop", !.info = NoEntry]
  /\ UNCHANGED << now, allowlist, blocklist, default_action, devices, active_devices,
                  blocked_devices_connected, observers, audits, enforcers, connected,
                  mounts, last_eval, prompt_log, removes, adds, samples >>
  /\ UNCHANGED << unmount_requests, seq >>
  /\ UNCHANGED << policy_file, DEFAULT_CONFIG, config >>

MaintAccept(res) ==
  /\ maint.pc = "prompt"
  /\ AcceptEffects(maint.info.device.id, maint.info.mount_path, res, "sweep")
  /\ maint' = [maint EXCEPT !.pc = "loop", !.info = NoEntry]
  /\ UNCHANGED << now, default_action, active_devices, observers, audits, connected,
                  last_eval, removes, adds, samples >>
  /\ UNCHANGED << unmount_requests, seq >>
  /\ UNCHANGED << DEFAULT_CONFIG, config >>

MaintDecline ==
  /\ maint.pc = "prompt"
  /\ DeclineEffects(maint.info.device.id, "sweep")
  /\ maint' = [maint EXCEPT !.pc = "loop", !.info = NoEntry]
  /\ UNCHANGED << now, default_action, active_devices, observers, audits, connected,
                  last_eval, removes, adds, samples >>
  /\ UNCHANGED << unmount_requests, seq >>
  /\ UNCHANGED << DEFAULT_CONFIG, config >>

(* ---- enforce_block_persistent: one thread per blocked connect or decline ---- *)
\* line 140, run by a thread started before the last Remove: the id is in
\* blocked_devices_connected again and the loop goes on
EnforceStalePoll(id) ==
  /\ enforcers[id].stale > 0
  /\ id \in blocked_devices_connected
  /\ enforcers' = [enforcers EXCEPT ![id].stale = @ - 1, ![id].overdue = @ + 1]
  /\ UNCHANGED << now, allowlist, blocklist, default_action, devices, active_devices,
                  blocked_devices_connected, observers, audits, maint, mounts,
                  connected, last_eval, prompt_log, removes, adds, samples,
                  unmount_requests, seq >>
  /\ UNCHANGED << policy_file, DEFAULT_CONFIG, config >>

\* faulty variant: a failed unmount ends the thread
EnforceIter_StopOnFailure(id, ok) ==
  /\ enforcers[id].fresh + enforcers[id].overdue > 0
  /\ id \in blocked_devices_connected
  /\ id \in DOMAIN mounts
  /\ mounts' = IF ok THEN Without(mounts, id) ELSE mounts
  /\ unmount_requests' = [unmount_requests EXCEPT ![id] = (@ + 1) % RequestMod]
  /\ enforcers' = IF ok THEN enforcers
                  ELSE IF enforcers[id].fresh > 0
                       THEN [enforcers EXCEPT ![id].fresh = @ - 1]
                       ELSE [enforcers EXCEPT ![id].overdue = @ - 1]
  /\ UNCHANGED << now, allowlist, blocklist, default_action, devices, active_devices,
                  blocked_devices_connected, observers, audits, maint,
                  connected, last_eval, prompt_log, removes, adds, samples, seq >>
  /\ UNCHANGED << policy_file, DEFAULT_CONFIG, config >>

\* lines 142-151: an iteration that finds the device mounted and calls
\* unmount_device, which returns True (ok) or False
EnforceIter(id, ok) ==
  /\ enforcers[id].fresh + enforcers[id].overdue > 0
  /\ id \in blocked_devices_connected
  /\ id \in DOMAIN mounts
  /\ mounts' = IF ok THEN Without(mounts, id) ELSE mounts
  /\ unmount_requests' = [unmount_requests EXCEPT ![id] = (@ + 1) % RequestMod]
  /\ UNCHANGED << now, allowlist, blocklist, default_action, devices, active_devices,
                  blocked_devices_connected, observers, audits, maint, enforcers,
                  connected, last_eval, prompt_log, removes, adds, samples, seq >>
  /\ UNCHANGED << policy_file, DEFAULT_CONFIG, config >>

\* lines 140 and 153: the loop test fails, the thread ends
EnforceExit(id, kind) ==
  /\ enforcers[id][kind] > 0
  /\ id \notin blocked_devices_connected
  /\ enforcers' = [enforcers EXCEPT ![id][kind] = @ - 1]
  /\ UNCHANGED << now, allowlist, blocklist, default_action, devices, active_devices,
                  blocked_devices_connected, observers, audits, maint, mounts,
                  connected, last_eval, prompt_log, removes, adds, samples,
                  unmount_requests, seq >>
  /\ UNCHANGED << policy_file, DEFAULT_CONFIG, config >>

Next ==
  \/ \E d \in ClockSteps : Advance(d)
  \/ \E id \in Ids, p \in Paths : OsMount(id, p)
  \/ \E id \in Ids : AddEvent(id)
  \/ \E id \in Ids : RemoveEvent(id)
  \/ \E k \in DOMAIN audits : AuditPoll(k)
  \/ \E k \in DOMAIN audits, ok \in BOOLEAN : AuditRemount(k, ok)
  \/ \E k \in DOMAIN audits : AuditTrack(k)
  \/ \E k \in DOMAIN audits : AuditSubscribe(k)
  \/ \E p \in Paths, f \in FileTraits :
       FileEvent(p, notify(f).size_mb, notify(f).is_executable)
  \/ \E p \in Paths : RaCheck(p)
  \/ \E p \in Paths : RaLog(p)
  \/ \E p \in Paths : ObsEval1(p)
  \/ \E p \in Paths : ObsEval2(p)
  \/ \E p \in Paths : ObsPromote(p)
  \/ \E p \in Paths : ObsReturn(p)
  \/ \E p \in Paths, res \in {"rw", "ro", "error"} : ObsAccept(p, res)
  \/ \E p \in Paths : ObsDecline(p)
  \/ SweepStart
  \/ SweepScan
  \/ SweepEval1
  \/ SweepEval2
  \/ MaintLoop
  \/ MaintLookup
  \/ MaintPromote
  \/ MaintReturn
  \/ \E res \in {"rw", "ro", "error"} : MaintAccept(res)
  \/ MaintDecline
  \/ \E id \in Ids, ok \in BOOLEAN : EnforceIter(id, ok)
  \/ \E id \in Ids : EnforceStalePoll(id)
  \/ \E id \in Ids, kind \in {"stale", "overdue"} : EnforceExit(id, kind)

Spec == Init /\ [][Next]_vars

(* ---- the ledger driven by a single caller: every call runs to its end ---- *)
SeqClockSteps == {30, 31, 61}
SeqSizes == {0, MAX_DATA_MB + 1}

\* the reports with an executable or a large file a record has had
Heavy(r) ==
  r.data_transferred_mb \div (MAX_DATA_MB + 1) + (IF r.executable_detected THEN 1 ELSE 0)

SeqFrame ==
  UNCHANGED << allowlist, blocklist, default_action, active_devices,
               blocked_devices_connected, observers, audits, maint, enforcers,
               connected, mounts, last_eval, prompt_log, removes, adds,
               unmount_requests, policy_file, DEFAULT_CONFIG, config >>

SeqInit ==
  /\ Init
  /\ allowlist = <<>> /\ blocklist = <<>> /\ default_action = BLOCK

SeqAdvance(d) ==
  /\ now + d <= SeqMaxNow
  /\ now' = now + d
  /\ UNCHANGED << devices, samples, seq >>
  /\ SeqFrame

\* register_device(id, MONITORED), as PolicyEngine.evaluate calls it
SeqRegister(id) ==
  /\ ~Has(devices, id)
  /\ devices' = register_device(devices, id, MONITORED, now)
  /\ seq' = [NoCall EXCEPT !.op = "register"]
  /\ UNCHANGED << now, samples >>
  /\ SeqFrame

\* report_activity(id, size_mb, is_executable); burst counts the reports made
\* since the last pause of more than a minute between two reports
SeqReport(id, size_mb, is_executable) ==
  /\ samples < SeqMaxReports
  /\ Has(devices, id)
  /\ (size_mb > 0 \/ is_executable) => Heavy(Rec(devices, id)) < SeqMaxHeavy
  /\ devices' = report_activity(devices, id, now, size_mb, is_executable)
  /\ seq' = [op |-> "report", ret |-> get_state(devices', id), promoted |-> <<>>,
             burst |-> IF now - Rec(devices, id).last_seen > WINDOW_SECS
                       THEN 1 ELSE seq.burst + 1]
  /\ samples' = samples + 1
  /\ UNCHANGED now
  /\ SeqFrame

\* check_idle_promotions()
SeqSweep ==
  /\ devices # <<>>
  /\ devices' = check_idle_promotions(devices, now).devices
  /\ seq' = [seq EXCEPT !.op = "sweep", !.ret = "-",
                        !.promoted = check_idle_promotions(devices, now).promoted_ids]
  /\ UNCHANGED << now, samples >>
  /\ SeqFrame

\* update_state(id, BLOCKED)
SeqSetState(id) ==
  /\ Has(devices, id)
  /\ Rec(devices, id).state # BLOCKED
  /\ devices' = update_state(devices, id, BLOCKED)
  /\ seq' = [seq EXCEPT !.op = "set", !.ret = "-", !.promoted = <<>>]
  /\ UNCHANGED << now, samples >>
  /\ SeqFrame

SeqNext ==
  \/ \E d \in SeqClockSteps : SeqAdvance(d)
  \/ \E id \in Ids : SeqRegister(id)
  \/ \E id \in Ids, sz \in SeqSizes, ex \in BOOLEAN : SeqReport(id, sz, ex)
  \/ SeqSweep
  \/ \E id \in Ids : SeqSetState(id)

SeqSpec == SeqInit /\ [][SeqNext]_vars

(* ---- the ledger's calls made one at a time, for any identifier ---- *)
LedgerIds == {"d1", "d2"}
TrustStates == {DETECTED, UNAUTHORIZED, MONITORED, AUTHORIZED, SUSPICIOUS, BLOCKED}
LedgerMaxCalls == 4
LedgerMaxNow == 31

LedgerFrame ==
  UNCHANGED << allowlist, blocklist, default_action, active_devices,
               blocked_devices_connected, observers, audits, maint, enforcers,
               connected, mounts, last_eval, prompt_log, removes, adds,
               unmount_requests, policy_file, DEFAULT_CONFIG, config >>

\* the call just made: its arguments, whether the identifier had a record, and
\* what it returned
Call(op, id, arg, ret) ==
  [op |-> op, id |-> id, arg |-> arg, known |-> Has(devices, id), ret |-> ret]

LedgerAdvance(d) ==
  /\ now + d <= LedgerMaxNow
  /\ now' = now + d
  /\ UNCHANGED << devices, samples, seq >>
  /\ LedgerFrame

\* register_device(id, initial_state)
LedgerRegister(id, st) ==
  /\ samples < LedgerMaxCalls
  /\ devices' = register_device(devices, id, st, now)
  /\ seq' = Call("register", id, st, "-")
  /\ samples' = samples + 1
  /\ UNCHANGED now
  /\ LedgerFrame

\* report_activity(id, size_mb, is_executable)
LedgerReport(id, size_mb, is_executable) ==
  /\ samples < LedgerMaxCalls
  /\ devices' = report_activity(devices, id, now, size_mb, is_executable)
  /\ seq' = Call("report", id, << size_mb, is_executable >>, get_state(devices', id))
  /\ samples' = samples + 1
  /\ UNCHANGED now
  /\ LedgerFrame

\* get_state(id)
LedgerGetState(id) ==
  /\ samples < LedgerMaxCalls
  /\ seq' = Call("get", id, "-", get_state(devices, id))
  /\ samples' = samples + 1
  /\ UNCHANGED << now, devices >>
  /\ LedgerFrame

LedgerNext ==
  \/ \E d \in ClockSteps : LedgerAdvance(d)
  \/ \E id \in LedgerIds, st \in TrustStates : LedgerRegister(id, st)
  \/ \E id \in LedgerIds, sz \in SeqSizes, ex \in BOOLEAN : LedgerReport(id, sz, ex)
  \/ \E id \in LedgerIds : LedgerGetState(id)

LedgerSpec == SeqInit /\ [][LedgerNext]_vars

(* ---- evaluate at its thresholds: a record close to them, then one call ---- *)
ThresholdMaxReports == 3
\* records the ledger can hold after some reports within the first minute: the
\* window count and the data just below or at the threshold, the age of the
\* record just below, at or above the promotion time
NearThreshold(st, t, files, mb) ==
  [NewRecord("d1", st, 0) EXCEPT !.last_seen = t, !.files_accessed = files,
                                 !.window_files = files, !.data_transferred_mb = mb]

ThresholdStart ==
  /\ EngineInit({Absent})
  /\ \E t \in {PROMOTION_TIME_SECS - 1, PROMOTION_TIME_SECS, PROMOTION_TIME_SECS + 1},
        st \in {MONITORED, AUTHORIZED},
        files \in {MAX_FILES_PER_MIN - 2, MAX_FILES_PER_MIN - 1, MAX_FILES_PER_MIN},
        mb \in {0, MAX_DATA_MB - 1, MAX_DATA_MB} :
       /\ now = t
       /\ devices = << NearThreshold(st, t, files, mb) >>
  /\ active_devices = <<>>
  /\ blocked_devices_connected = {}
  /\ observers = <<>>
  /\ audits = <<>>
  /\ maint = IdleMaint
  /\ enforcers = [id \in Ids |-> NoTasks]
  /\ connected = [id \in Ids |-> FALSE]
  /\ mounts = <<>>
  /\ last_eval = [id |-> NoId, action |-> "-", state_before |-> "-",
                  in_block |-> FALSE, in_allow |-> FALSE]
  /\ prompt_log = <<>>
  /\ removes = [id \in Ids |-> 0]
  /\ adds = 0
  /\ samples = 0
  /\ unmount_requests = [id \in Ids |-> 0]
  /\ seq = NoCall
  /\ DEFAULT_CONFIG = BuiltinConfig
  /\ config = BuiltinConfig

\* report_activity(id, size_mb) with a file of 0 or 1 MB
ThresholdReport(id, size_mb) ==
  /\ samples < ThresholdMaxReports
  /\ devices' = report_activity(devices, id, now, size_mb, FALSE)
  /\ seq' = Call("report", id, << size_mb, FALSE >>, get_state(devices', id))
  /\ samples' = samples + 1
  /\ UNCHANGED now
  /\ LedgerFrame

\* check_idle_promotions()
ThresholdSweep ==
  /\ samples < ThresholdMaxReports
  /\ devices' = check_idle_promotions(devices, now).devices
  /\ seq' = Call("sweep", NoId, "-", check_idle_promotions(devices, now).promoted_ids)
  /\ samples' = samples + 1
  /\ UNCHANGED now
  /\ LedgerFrame

ThresholdNext ==
  \/ \E id \in Ids, sz \in {0, 1} : ThresholdReport(id, sz)
  \/ ThresholdSweep

ThresholdSpec == ThresholdStart /\ [][ThresholdNext]_vars

(* ---- two devices that take turns at one mount path ---- *)
PathIds == {"d1", "d2"}

PathInit ==
  /\ EngineInit({PolicyFile(doc) : doc \in PolicyDocs})
  /\ now = 0
  /\ devices = <<>>
  /\ active_devices = <<>>
  /\ blocked_devices_connected = {}
  /\ observers = <<>>
  /\ audits = <<>>
  /\ maint = IdleMaint
  /\ enforcers = [id \in PathIds |-> NoTasks]
  /\ connected = [id \in PathIds |-> FALSE]
  /\ mounts = <<>>
  /\ last_eval = [id |-> NoId, action |-> "-", state_before |-> "-",
                  in_block |-> FALSE, in_allow |-> FALSE]
  /\ prompt_log = <<>>
  /\ removes = [id \in PathIds |-> 0]
  /\ adds = 0
  /\ samples = 0
  /\ unmount_requests = [id \in PathIds |-> 0]
  /\ seq = NoCall
  /\ DEFAULT_CONFIG = BuiltinConfig
  /\ config = BuiltinConfig

\* the events, the mount-wait threads and the reports of the observers; the
\* clock stands still, so no promotion falls due
PathNext ==
  \/ \E id \in PathIds, p \in Paths : OsMount(id, p)
  \/ \E id \in PathIds : AddEvent(id)
  \/ \E id \in PathIds : RemoveEvent(id)
  \/ \E k \in DOMAIN audits : AuditPoll(k)
  \/ \E k \in DOMAIN audits, ok \in BOOLEAN : AuditRemount(k, ok)
  \/ \E k \in DOMAIN audits : AuditTrack(k)
  \/ \E k \in DOMAIN audits : AuditSubscribe(k)
  \/ \E p \in Paths, f \in FileTraits :
       FileEvent(p, notify(f).size_mb, notify(f).is_executable)
  \/ \E p \in Paths : RaCheck(p)
  \/ \E p \in Paths : RaLog(p)
  \/ \E p \in Paths : ObsEval1(p)

PathSpec == PathInit /\ [][PathNext]_vars

(* ---- a storage device and a device of another class ---- *)
STORAGE == "storage"
HID == "hid"
ClassIds == {"d1", "k1"}
\* USBDevice.device_type of the two devices
device_type(id) == IF id = "d1" THEN STORAGE ELSE HID
StorageIds == {id \in ClassIds : device_type(id) = STORAGE}
\* the policy documents: the other device unlisted, blocklisted or allowlisted
ClassFiles ==
  { Mapping(al, bl, "block") : al \in {<<>>, <<"k1">>}, bl \in {<<>>, <<"k1">>, <<"d1">>} }

ClassInit ==
  /\ EngineInit(ClassFiles)
  /\ now = 0
  /\ devices = <<>>
  /\ active_devices = <<>>
  /\ blocked_devices_connected = {}
  /\ observers = <<>>
  /\ audits = <<>>
  /\ maint = IdleMaint
  /\ enforcers = [id \in ClassIds |-> NoTasks]
  /\ connected = [id \in ClassIds |-> FALSE]
  /\ mounts = <<>>
  /\ last_eval = [id |-> NoId, action |-> "-", state_before |-> "-",
                  in_block |-> FALSE, in_allow |-> FALSE]
  /\ prompt_log = <<>>
  /\ removes = [id \in ClassIds |-> 0]
  /\ adds = 0
  /\ samples = 0
  /\ unmount_requests = [id \in ClassIds |-> 0]
  /\ seq = NoCall
  /\ DEFAULT_CONFIG = BuiltinConfig
  /\ config = BuiltinConfig

\* faulty variant: the class of the device is not looked at
AddEventOther_AnyClass(id) == AddEvent(id)

\* handle_usb_event, DeviceAction.ADD, for a device that is not a storage device:
\* evaluate runs and the messages are printed; neither branch of lines 179-185
\* is taken
AddEventOther(id) ==
  /\ adds < MaxAdds
  /\ devices' = PolicyRegister(blocklist, allowlist, devices, id, now)
  /\ last_eval' = [id |-> id,
                   action |-> PolicyEvaluate(blocklist, allowlist, devices,
                                             default_action, id),
                   state_before |-> get_state(devices, id),
                   in_block |-> InList(blocklist, id),
                   in_allow |-> InList(allowlist, id)]
  /\ adds' = adds + 1
  /\ connected' = [connected EXCEPT ![id] = TRUE]
  /\ UNCHANGED << now, allowlist, blocklist, default_action, active_devices,
                  blocked_devices_connected, observers, audits, maint, enforcers,
                  mounts, prompt_log, removes, samples >>
  /\ UNCHANGED << unmount_requests, seq >>
  /\ UNCHANGED << policy_file, DEFAULT_CONFIG, config >>

\* the events of both devices, the mount-wait threads and the enforcement tasks
ClassNext ==
  \/ \E id \in StorageIds, p \in Paths : OsMount(id, p)
  \/ \E id \in StorageIds : AddEvent(id)
  \/ \E id \in ClassIds \ StorageIds : AddEventOther(id)
  \/ \E id \in ClassIds : RemoveEvent(id)
  \/ \E k \in DOMAIN audits : AuditPoll(k)
  \/ \E k \in DOMAIN audits, ok \in BOOLEAN : AuditRemount(k, ok)
  \/ \E k \in DOMAIN audits : AuditTrack(k)
  \/ \E k \in DOMAIN audits : AuditSubscribe(k)
  \/ \E id \in ClassIds, ok \in BOOLEAN : EnforceIter(id, ok)
  \/ \E id \in ClassIds : EnforceStalePoll(id)
  \/ \E id \in ClassIds, kind \in {"stale", "overdue"} : EnforceExit(id, kind)

ClassSpec == ClassInit /\ [][ClassNext]_vars

(* ---- the file handler of one monitored device, event by event ---- *)
WatcherMaxEvents == 4

\* PolicyEngine.evaluate registers the device at its Add
WatcherRegister(id) ==
  /\ ~Has(devices, id)
  /\ devices' = register_device(devices, id, MONITORED, now)
  /\ seq' = Call("register", id, MONITORED, "-")
  /\ UNCHANGED << now, samples >>
  /\ LedgerFrame

\* on_created / on_modified / on_deleted / on_moved -> _notify -> activity_callback
\* -> report_activity, for a file with the traits f
WatcherNotify(id, f) ==
  /\ samples < WatcherMaxEvents
  /\ Has(devices, id)
  /\ devices' = report_activity(devices, id, now, notify(f).size_mb,
                                notify(f).is_executable)
  /\ seq' = Call("notify", id, f, notify(f))
  /\ samples' = samples + 1
  /\ UNCHANGED now
  /\ LedgerFrame

WatcherNext ==
  \/ \E id \in Ids : WatcherRegister(id)
  \/ \E id \in Ids, f \in FileTraits : WatcherNotify(id, f)

WatcherSpec == SeqInit /\ [][WatcherNext]_vars

\* every enforce_block_persistent thread is a daemon thread that sleeps one second
\* per iteration and is scheduled again: its next loop test and iteration run
FairSpec ==
  /\ Spec
  /\ \A id \in Ids : WF_vars(EnforceStalePoll(id))
  /\ \A id \in Ids : WF_vars(\E ok \in BOOLEAN : EnforceIter(id, ok))

(* ---- the policy engine constructed from a document and called directly ---- *)
PolicyMaxCalls == 4
\* the documents on disk when the engine is constructed
PolicyFiles ==
  {Absent, Unparsable} \cup
  { Mapping(al, bl, dflt) :
      al \in {<<>>, <<"d1">>}, bl \in {<<>>, <<"d1">>},
      dflt \in {"block", "allow", "Block", "alert", "audit", NonString} }

\* load_policy ran into the handler of line 40
LoadFails(file) ==
  file.kind = "unparsable" \/ (file.kind = "mapping" /\ file.default_action = NonString)

PolicyFrame ==
  UNCHANGED << now, default_action, devices, active_devices,
               blocked_devices_connected, observers, audits, maint, enforcers,
               connected, mounts, last_eval, prompt_log, removes, adds,
               unmount_requests, DEFAULT_CONFIG, config >>

\* add_to_allowlist(device); the write of _save_policy succeeds (ok) or fails
AddToAllowlist(id, ok) ==
  /\ samples < PolicyMaxCalls
  /\ allowlist' = add_to_list(allowlist, id)
  /\ policy_file' = SavedAfterAdd(policy_file, allowlist, allowlist', allowlist',
                                  blocklist, default_action, ok)
  /\ seq' = [op |-> "allow", id |-> id, arg |-> ok, known |-> InList(allowlist, id),
             ret |-> "-"]
  /\ samples' = samples + 1
  /\ UNCHANGED blocklist
  /\ PolicyFrame

\* add_to_blocklist(device)
AddToBlocklist(id, ok) ==
  /\ samples < PolicyMaxCalls
  /\ blocklist' = add_to_list(blocklist, id)
  /\ policy_file' = SavedAfterAdd(policy_file, blocklist, blocklist', allowlist,
                                  blocklist', default_action, ok)
  /\ seq' = [op |-> "block", id |-> id, arg |-> ok, known |-> InList(blocklist, id),
             ret |-> "-"]
  /\ samples' = samples + 1
  /\ UNCHANGED allowlist
  /\ PolicyFrame

PolicyInit ==
  /\ EngineInit(PolicyFiles)
  /\ ProgramInit

PolicyNext ==
  \/ \E id \in LedgerIds, ok \in BOOLEAN : AddToAllowlist(id, ok)
  \/ \E id \in LedgerIds, ok \in BOOLEAN : AddToBlocklist(id, ok)

PolicySpec == PolicyInit /\ [][PolicyNext]_vars

(* ---- load_config called on its own ---- *)
\* everything of the program that load_config does not touch
ProgramFrame ==
  UNCHANGED << now, allowlist, blocklist, default_action, devices, active_devices,
               blocked_devices_connected, observers, audits, maint, enforcers,
               connected, mounts, last_eval, prompt_log, removes, adds, samples,
               unmount_requests, policy_file >>

\* a call of load_config; seq keeps the kind of file it was given
LoadConfig(file) ==
  /\ config' = load_config(DEFAULT_CONFIG, file).ret
  /\ DEFAULT_CONFIG' = load_config(DEFAULT_CONFIG, file).defaults
  /\ seq' = [NoCall EXCEPT !.op = "load_config", !.ret = file.kind]
  /\ ProgramFrame

ConfigInit ==
  /\ EngineInit({Absent})
  /\ ProgramInit

ConfigNext == \E file \in ConfigFiles : LoadConfig(file)

ConfigSpec == ConfigInit /\ [][ConfigNext]_vars


(* ============================== properties ============================ *)
P0 == "/media/usb"
D1 == "d1"
AddStep == adds' = adds + 1
StateOf(devs, id) == Rec(devs, id).state

(* C1: two promotion triggers for the same entry of active_devices (one from  *)
(* activity_callback, one from the idle sweep): exactly one promote_device   *)
(* call passes the guard and prompts, the other returns.  No entry put into  *)
(* active_devices is prompted for twice, and a prompted entry is gone.       *)
PromotionOncePerEntry ==
  /\ \A i, j \in DOMAIN prompt_log :
       i # j => prompt_log[i].token # prompt_log[j].token
  /\ \A i \in DOMAIN prompt_log :
       prompt_log[i].id \in DOMAIN active_devices
         => active_devices[prompt_log[i].id].device.ev # prompt_log[i].token

\* the sweep's call prompted; the callback's call, made for the same entry, is at
\* the return of the failed guard
PromotionRaceWitness ==
  /\ adds = 1
  /\ connected[D1]
  /\ maint.pc = "prompt" /\ maint.info.device.id = D1
  /\ P0 \in DOMAIN observers
  /\ observers[P0].pc = "return" /\ observers[P0].dev.id = D1
  /\ Len(prompt_log) = 1

(* C2: at most one authorization prompt per identifier and device connection *)
(* (between an Add and the next Remove), duplicate Add events included.      *)
PromptOncePerConnection ==
  \A i, j \in DOMAIN prompt_log :
    (i # j /\ prompt_log[i].id = prompt_log[j].id /\ prompt_log[i].conn # 0)
      => prompt_log[i].conn # prompt_log[j].conn

(* C3: the first evaluate of an identifier in neither list and without a     *)
(* record returns Allow and leaves a MONITORED record, whatever the default. *)
FirstContactMonitored ==
  [][ AddStep =>
        LET id == last_eval'.id IN
        (~InList(blocklist, id) /\ ~InList(allowlist, id) /\ ~Has(devices, id))
          => /\ last_eval'.action = ALLOW
             /\ Has(devices', id)
             /\ StateOf(devices', id) = MONITORED
             /\ Len(devices') = Len(devices) + 1 ]_vars

FirstContactWitness ==
  /\ default_action = BLOCK
  /\ adds = 1
  /\ last_eval.id = D1 /\ last_eval.action = ALLOW
  /\ last_eval.state_before = UNAUTHORIZED
  /\ ~last_eval.in_block /\ ~last_eval.in_allow
  /\ Has(devices, D1) /\ StateOf(devices, D1) = MONITORED

(* C4: evaluate returns the configured default action for an identifier in   *)
(* neither list that has not been seen before.                               *)
FirstContactReturnsDefault ==
  [][ AddStep =>
        LET id == last_eval'.id IN
        (~InList(blocklist, id) /\ ~InList(allowlist, id) /\ ~Has(devices, id))
          => last_eval'.action = default_action ]_vars

(* C5: a blocklisted identifier evaluates to Block, also when it is          *)
(* allowlisted too; an allowlisted one not blocklisted evaluates to Allow.   *)
BlocklistPrecedence ==
  [][ AddStep =>
        LET id == last_eval'.id IN
        /\ InList(blocklist, id) => last_eval'.action = BLOCK
        /\ (InList(allowlist, id) /\ ~InList(blocklist, id))
             => last_eval'.action = ALLOW ]_vars

BlocklistPrecedenceWitness ==
  /\ last_eval.id = D1 /\ last_eval.in_block /\ last_eval.in_allow
  /\ last_eval.action = BLOCK

(* C6: evaluate of a listed identifier leaves the ledger as it was.          *)
ListedLeavesLedger ==
  [][ AddStep =>
        LET id == last_eval'.id IN
        (InList(blocklist, id) \/ InList(allowlist, id)) => devices' = devices ]_vars

\* a blocklisted identifier evaluated on first sight: no record before, none after
ListedFirstSightWitness ==
  /\ last_eval.id = D1 /\ last_eval.in_block
  /\ last_eval.state_before = UNAUTHORIZED
  /\ ~Has(devices, D1)

(* C7: evaluate of an unlisted identifier with a record: Allow for MONITORED *)
(* and AUTHORIZED, Block for SUSPICIOUS and BLOCKED, the record unchanged.   *)
KnownUnlistedDecision ==
  [][ AddStep =>
        LET id == last_eval'.id IN
        (~InList(blocklist, id) /\ ~InList(allowlist, id) /\ Has(devices, id))
          => /\ StateOf(devices, id) \in {MONITORED, AUTHORIZED}
                  => last_eval'.action = ALLOW
             /\ StateOf(devices, id) \in {SUSPICIOUS, BLOCKED}
                  => last_eval'.action = BLOCK
             /\ devices' = devices ]_vars

KnownSuspiciousWitness ==
  /\ last_eval.id = D1 /\ ~last_eval.in_block /\ ~last_eval.in_allow
  /\ last_eval.state_before = SUSPICIOUS
  /\ last_eval.action = BLOCK

\* a step of report_activity (trust.py 101-112) on the observer thread of p
ReportStep(p) == RaCheck(p) \/ RaLog(p) \/ ObsEval1(p) \/ ObsEval2(p)
\* a step of the evaluate call made by check_idle_promotions (trust.py 125)
SweepStep == SweepEval1 \/ SweepEval2

(* C8: an evaluation (of report_activity or of the sweep) that finds         *)
(* executable_detected, or any other escalation rule, met sets and returns   *)
(* SUSPICIOUS, also for a MONITORED record past the promotion time; it never *)
(* goes on to the write of AUTHORIZED.                                       *)
EscalationBeforePromotion ==
  [][ /\ \A p \in DOMAIN observers :
           (/\ observers[p].pc = "eval1"
            /\ p \in DOMAIN observers' /\ observers'[p].pc # "eval1"
            /\ Escalates(Rec(devices, observers[p].dev.id)))
             => /\ StateOf(devices', observers[p].dev.id) = SUSPICIOUS
                /\ observers'[p].ret = SUSPICIOUS
                /\ observers'[p].pc = "idle"
      /\ (maint.pc = "eval1" /\ maint'.pc # "eval1" /\ Escalates(Rec(devices, maint.cur)))
           => /\ StateOf(devices', maint.cur) = SUSPICIOUS
              /\ maint'.pc = "scan"
              /\ maint'.promoted = maint.promoted ]_vars

\* the sweep picked the MONITORED record past the promotion time, the sample
\* with the large file was logged, and the sweep's evaluate escalated
EscalationBeforePromotionWitness ==
  /\ maint.pc = "scan" /\ maint.cur = D1 /\ maint.promoted = <<>>
  /\ Has(devices, D1)
  /\ StateOf(devices, D1) = SUSPICIOUS
  /\ Rec(devices, D1).data_transferred_mb > MAX_DATA_MB
  /\ now - Rec(devices, D1).first_seen > PROMOTION_TIME_SECS
  /\ P0 \in DOMAIN observers /\ observers[P0].pc = "eval1"
  /\ prompt_log = <<>>

(* C9: once a record is BLOCKED, no step of report_activity and no step of   *)
(* the sweep changes the record: its state stays BLOCKED and last_seen, the  *)
(* counters, executable_detected and the window fields stay as they were.    *)
BlockedIsSticky ==
  [][ \A id \in Ids :
        (/\ Has(devices, id) /\ StateOf(devices, id) = BLOCKED
         /\ (SweepStep \/ \E p \in Paths : ReportStep(p)))
          => Rec(devices', id) = Rec(devices, id) ]_vars

(* C10 as stated: once a record is AUTHORIZED, no step of report_activity    *)
(* and no step of the sweep changes its state.                               *)
AuthorizedIsTerminal ==
  [][ \A id \in Ids :
        (/\ Has(devices, id) /\ StateOf(devices, id) = AUTHORIZED
         /\ (SweepStep \/ \E p \in Paths : ReportStep(p)))
          => StateOf(devices', id) = AUTHORIZED ]_vars

(* C10: once a record is AUTHORIZED, a step of report_activity or of the     *)
(* sweep leaves the state AUTHORIZED, or writes SUSPICIOUS and then one of   *)
(* the three escalation rules of evaluate is met by the record; the state    *)
(* never returns to MONITORED.                                               *)
AuthorizedLeavesOnlyByEscalation ==
  [][ \A id \in Ids :
        (/\ Has(devices, id) /\ StateOf(devices, id) = AUTHORIZED
         /\ (SweepStep \/ \E p \in Paths : ReportStep(p)))
          => \/ StateOf(devices', id) = AUTHORIZED
             \/ /\ StateOf(devices', id) = SUSPICIOUS
                /\ \/ Rec(devices, id).executable_detected
                   \/ Rec(devices, id).window_files > MAX_FILES_PER_MIN
                   \/ Rec(devices, id).data_transferred_mb > MAX_DATA_MB ]_vars

\* the sweep promoted the record and its prompt is open; the one sample was
\* reported after that and its evaluate returned SUSPICIOUS
AuthorizedEscalatedWitness ==
  /\ maint.pc = "prompt" /\ maint.info.device.id = D1
  /\ samples = 1
  /\ P0 \in DOMAIN observers
  /\ observers[P0].pc = "idle" /\ observers[P0].ret = SUSPICIOUS
  /\ StateOf(devices, D1) = SUSPICIOUS

(* C11: an enforcement thread running when its device's Remove is handled    *)
(* ends at its next loop test: no thread passes the loop test after a Remove *)
(* that followed its start, also when an Add re-inserted the id meanwhile.   *)
EnforcerStopsAfterRemove ==
  \A id \in Ids : enforcers[id].overdue = 0

(* C12: at most one enforce_block_persistent thread runs per identifier.     *)
OneEnforcerPerDevice ==
  \A id \in Ids : Running(enforcers[id]) <= 1

(* C13: while the id is in blocked_devices_connected, an iteration that      *)
(* finds a mount calls unmount_device; a failed unmount leaves the thread    *)
(* running; a device that is mounted and blocked is always eventually sent   *)
(* another unmount request (or is unmounted or removed before).              *)
UnmountRetried ==
  /\ [][ \A id \in Ids :
          (unmount_requests'[id] # unmount_requests[id] /\ id \in DOMAIN mounts')
            => /\ enforcers' = enforcers
               /\ id \in blocked_devices_connected ]_vars
  /\ \A id \in Ids : \A b \in 0..(RequestMod - 1) :
       (/\ id \in blocked_devices_connected
        /\ id \in DOMAIN mounts
        /\ unmount_requests[id] = b)
         ~> (\/ unmount_requests[id] # b
             \/ id \notin blocked_devices_connected
             \/ id \notin DOMAIN mounts)

\* an unmount request was made and failed: the device is still mounted and
\* blocked, the thread still runs
UnmountFailedWitness ==
  /\ D1 \in blocked_devices_connected
  /\ D1 \in DOMAIN mounts
  /\ unmount_requests[D1] = 1
  /\ enforcers[D1].fresh = 1
  /\ adds = 1 /\ removes[D1] = 0

(* C14: active_devices holds only identifiers of connected devices.          *)
ActiveOnlyConnected ==
  \A id \in DOMAIN active_devices : connected[id]

(* C15: blocked_devices_connected holds only identifiers of connected        *)
(* devices, so no enforcement thread keeps running for a removed device.     *)
BlockedOnlyConnected ==
  \A id \in blocked_devices_connected : connected[id]

\* the prompt log entries of an identifier with a given answer
AnswersOf(log, id, answers) ==
  {i \in DOMAIN log : log[i].id = id /\ log[i].answer \in answers}
\* the entry answered by this step
JustAnswered ==
  {i \in DOMAIN prompt_log :
     prompt_log[i].answer = "open" /\ prompt_log'[i].answer # "open"}

(* C16: when the operator declines, the identifier is blocklisted, its       *)
(* record is BLOCKED, it is in blocked_devices_connected and one more        *)
(* enforcement thread runs for it; every later evaluate of it returns Block. *)
DeclineBlocks ==
  [][ /\ \A i \in JustAnswered :
           prompt_log'[i].answer = "declined"
             => LET id == prompt_log[i].id IN
                /\ InList(blocklist', id)
                /\ Has(devices', id) /\ StateOf(devices', id) = BLOCKED
                /\ id \in blocked_devices_connected'
                /\ Running(enforcers'[id]) = Running(enforcers[id]) + 1
      /\ AddStep =>
           (AnswersOf(prompt_log, last_eval'.id, {"declined"}) # {}
              => last_eval'.action = BLOCK) ]_vars

\* a declined device was plugged in again and evaluated
DeclinedThenEvaluatedWitness ==
  /\ AnswersOf(prompt_log, D1, {"declined"}) # {}
  /\ adds = 2 /\ removes[D1] = 1 /\ connected[D1]
  /\ last_eval.id = D1 /\ last_eval.action = BLOCK
  /\ StateOf(devices, D1) = BLOCKED
  /\ enforcers[D1].fresh = 1

(* C17: when the operator accepts, the identifier is allowlisted and stays   *)
(* so; a failed remount is reported as an error, a remount that succeeded    *)
(* is reported as success when the mount reads read-write afterwards and as  *)
(* the warning when it still reads read-only.                                *)
AcceptOutcomes ==
  [][ /\ \A i \in JustAnswered :
           prompt_log'[i].answer # "declined"
             => LET e == prompt_log'[i] IN
                /\ InList(allowlist', e.id)
                /\ e.remount = "failed" <=> e.answer = "error"
                /\ e.answer = "success"
                     => \E m \in DOMAIN mounts' : mounts'[m].mode = "rw"
                /\ e.answer = "warning"
                     => \A m \in DOMAIN mounts' : mounts'[m].mode # "rw"
      /\ \A id \in Ids : InList(allowlist, id) => InList(allowlist', id) ]_vars

\* the remount returned success, the mount still reads read-only: the warning
AcceptWarningWitness ==
  /\ \E i \in DOMAIN prompt_log :
       /\ prompt_log[i].id = D1
       /\ prompt_log[i].answer = "warning" /\ prompt_log[i].remount = "ok"
  /\ InList(allowlist, D1)
  /\ D1 \in DOMAIN mounts /\ mounts[D1].mode = "ro"

(* C18: the mutations of a record by report_activity, the sweep and          *)
(* update_state, and the registrations into the ledger, are serialized: the  *)
(* sweep's evaluate never writes AUTHORIZED over a SUSPICIOUS written by a   *)
(* report_activity since the sweep read the record, and no record is         *)
(* registered while the sweep iterates the ledger.                           *)
LedgerSerialized ==
  [][ /\ SweepEval2 => StateOf(devices, maint.cur) # SUSPICIOUS
      /\ maint.pc \in {"scan", "eval1", "eval2"} => Len(devices') = Len(devices) ]_vars

\* a record none of whose reports carried an executable or pushed the data
\* over the limit
Quiet(r) == ~r.executable_detected /\ r.data_transferred_mb <= MAX_DATA_MB

(* C19: for a record that only gets non-executable reports of negligible     *)
(* size: while all reports lie in the window that began with the record, a   *)
(* report returns SUSPICIOUS exactly from the 11th on; a report makes the    *)
(* record SUSPICIOUS only as the 11th or later of a burst, so reports in     *)
(* bursts of at most 10 with more than a minute between them never do.       *)
RateWindow ==
  [][ \A id \in Ids :
        (/\ seq'.op = "report" /\ samples' = samples + 1
         /\ Has(devices, id)
         /\ Rec(devices, id).state # BLOCKED
         /\ Quiet(Rec(devices', id)))
          => /\ now - Rec(devices, id).first_seen <= WINDOW_SECS
                  => (seq'.ret = SUSPICIOUS
                        <=> Rec(devices', id).files_accessed > MAX_FILES_PER_MIN)
             /\ (Rec(devices, id).state # SUSPICIOUS /\ seq'.ret = SUSPICIOUS)
                  => seq'.burst > MAX_FILES_PER_MIN
             /\ Rec(devices', id).window_files > MAX_FILES_PER_MIN => seq'.ret = SUSPICIOUS
             /\ seq'.ret = Rec(devices', id).state ]_vars

\* eleven reports in three bursts over two minutes, the window reset between
\* the bursts: the eleventh report did not return SUSPICIOUS
SpreadReportsWitness ==
  /\ Has(devices, D1) /\ Quiet(Rec(devices, D1))
  /\ Rec(devices, D1).files_accessed = 11
  /\ samples = 11
  /\ seq.op = "report" /\ seq.ret = AUTHORIZED /\ seq.burst = 3
  /\ Rec(devices, D1).window_files = 3
  /\ now - Rec(devices, D1).first_seen = 122

(* C20: check_idle_promotions, for a MONITORED record that meets no          *)
(* escalation rule: past the promotion time the record becomes AUTHORIZED    *)
(* and its id is returned, otherwise the record is unchanged and its id is   *)
(* not returned; records in other states are unchanged and never returned.   *)
SweepPromotes ==
  [][ SeqSweep =>
        \A i \in 1..Len(devices) :
          LET r == devices[i]
              returned == \E j \in 1..Len(seq'.promoted) : seq'.promoted[j] = r.device_id
              calm == Quiet(r) /\ r.window_files <= MAX_FILES_PER_MIN
          IN /\ (r.state = MONITORED /\ calm /\ now - r.first_seen > PROMOTION_TIME_SECS)
                  => devices'[i] = [r EXCEPT !.state = AUTHORIZED] /\ returned
             /\ (r.state = MONITORED /\ calm /\ now - r.first_seen <= PROMOTION_TIME_SECS)
                  => devices'[i] = r /\ ~returned
             /\ r.state # MONITORED => devices'[i] = r /\ ~returned ]_vars

\* a record idle for 31 seconds was promoted by the sweep and returned
IdlePromotedWitness ==
  /\ seq.op = "sweep" /\ seq.promoted = << D1 >>
  /\ Has(devices, D1) /\ StateOf(devices, D1) = AUTHORIZED
  /\ Rec(devices, D1).files_accessed = 0
  /\ now - Rec(devices, D1).first_seen = PROMOTION_TIME_SECS + 1

(* C21: when the mount resolver finds no path on any of the 10 attempts of the
   bounded poll, the mount-wait thread of an allowed storage device ends with the
   warning and nothing else: an attempt that finds no mount changes only the
   attempt counter, the tenth one ends the thread, no attempt requests a remount,
   inserts into active_devices, subscribes an observer or starts an enforcement
   thread, and a thread that has ended never acts again. *)
MountWaitGivesUp ==
  [][\A k \in DOMAIN audits :
       /\ (audits[k].pc = "wait" /\ audits'[k] # audits[k]
             /\ audits[k].dev.id \notin DOMAIN mounts)
          => /\ audits[k].tries < MOUNT_TIMEOUT
             /\ audits'[k] =
                  [audits[k] EXCEPT !.tries = @ + 1,
                                    !.pc = IF audits[k].tries + 1 = MOUNT_TIMEOUT
                                           THEN "warned" ELSE "wait"]
             /\ UNCHANGED << mounts, active_devices, observers, enforcers,
                             blocked_devices_connected >>
       /\ audits[k].pc = "warned"
          => /\ audits'[k] = audits[k]
             /\ audits[k].tries = MOUNT_TIMEOUT
             /\ audits[k].mount_path = "-"]_vars

\* a device was allowed, never mounted, and its thread gave up after ten attempts
MountWaitGaveUpWitness ==
  /\ adds = 1
  /\ 1 \in DOMAIN audits
  /\ audits[1].pc = "warned"
  /\ audits[1].tries = MOUNT_TIMEOUT
  /\ connected[D1]
  /\ D1 \notin DOMAIN mounts
  /\ D1 \notin DOMAIN active_devices
  /\ observers = <<>>
  /\ Running(enforcers[D1]) = 0

\* a step of the single caller that is a call of the given ledger operation
LedgerCall(op) == samples' = samples + 1 /\ seq'.op = op

(* C22: report_activity for an identifier without a record returns UNAUTHORIZED
   and leaves the whole ledger as it was (no record created, no other record
   changed), whatever the size and the executable flag. *)
ReportUnregistered ==
  [][(LedgerCall("report") /\ ~Has(devices, seq'.id))
       => /\ seq'.ret = UNAUTHORIZED
          /\ devices' = devices
          /\ ~Has(devices', seq'.id)]_vars

\* an executable report of 101 MB for d2, which has no record, while d1 has one
ReportUnregisteredWitness ==
  /\ seq.op = "report"
  /\ seq.id = "d2"
  /\ ~seq.known
  /\ seq.arg = << MAX_DATA_MB + 1, TRUE >>
  /\ ~Has(devices, "d2")
  /\ Has(devices, "d1")

(* C23: get_state never changes the ledger, and for an identifier without a
   record it returns UNAUTHORIZED and the ledger has no record for it afterwards. *)
GetStateUnregistered ==
  [][LedgerCall("get")
       => /\ devices' = devices
          /\ ~Has(devices, seq'.id)
             => (seq'.ret = UNAUTHORIZED /\ ~Has(devices', seq'.id))]_vars

\* get_state was asked about d2, which has no record, while d1 has one
GetStateUnregisteredWitness ==
  /\ seq.op = "get"
  /\ seq.id = "d2"
  /\ ~seq.known
  /\ seq.ret = UNAUTHORIZED
  /\ Has(devices, "d1")
  /\ ~Has(devices, "d2")

(* C24: register_device for an identifier that has a record leaves the ledger
   unchanged whatever initial state is passed, and after any register_device call
   a second one for the same identifier, with any state, changes nothing. *)
RegisterIdempotent ==
  [][LedgerCall("register")
       => /\ Has(devices, seq'.id) => devices' = devices
          /\ \A st \in TrustStates :
               register_device(devices', seq'.id, st, now') = devices']_vars

\* register_device was called for a record with activity, first seen earlier,
\* with a state other than the record's
RegisterAgainWitness ==
  /\ seq.op = "register"
  /\ seq.known
  /\ Has(devices, seq.id)
  /\ seq.arg # Rec(devices, seq.id).state
  /\ Rec(devices, seq.id).files_accessed > 0
  /\ Rec(devices, seq.id).first_seen < now

\* the number of places of a list that hold the identifier
Count(l, id) == Cardinality({i \in 1..Len(l) : l[i] = id})

(* C25: add_to_allowlist and add_to_blocklist are idempotent: whatever calls were
   made, each list holds an identifier at most once, and a call for an identifier
   that is in the list already changes neither the list nor the policy document
   on disk. *)
PolicyAddIdempotent ==
  [][samples' = samples + 1
       => /\ (seq'.op = "allow" /\ InList(allowlist, seq'.id))
               => (allowlist' = allowlist /\ policy_file' = policy_file)
          /\ (seq'.op = "block" /\ InList(blocklist, seq'.id))
               => (blocklist' = blocklist /\ policy_file' = policy_file)
          /\ \A id \in LedgerIds :
               Count(allowlist', id) <= 1 /\ Count(blocklist', id) <= 1]_vars

\* d1 was added to the allowlist a second time while the document on disk still
\* lacked it (the first write had failed)
AddedTwiceWitness ==
  /\ seq.op = "allow"
  /\ seq.id = "d1"
  /\ seq.known
  /\ samples >= 2
  /\ Count(allowlist, "d1") = 1
  /\ policy_file.kind = "absent"

(* C26: when the policy document is absent or loading it fails at any point, the
   constructed engine has an empty allowlist, an empty blocklist and the default
   action block. *)
FailedLoadLeavesDefaults ==
  (seq = NoCall /\ (policy_file.kind = "absent" \/ LoadFails(policy_file)))
    => (allowlist = <<>> /\ blocklist = <<>> /\ default_action = BLOCK)

(* C27: load_config returns the built-in default configuration whenever the file
   is missing, empty or unparsable, whatever load_config calls were made before. *)
FallbackIsBuiltin ==
  (seq.op = "load_config" /\ seq.ret \in {"missing", "empty", "unparsable"})
    => config = BuiltinConfig

\* the device is plugged in, its latest Add was allowed with the trust state
\* MONITORED (an existing MONITORED record, or a record made by that Add), and
\* its record is MONITORED still
ConnectedMonitored(id) ==
  /\ connected[id]
  /\ get_state(devices, id) = MONITORED
  /\ last_eval.id = id
  /\ last_eval.action = ALLOW
  /\ \/ last_eval.state_before = MONITORED
     \/ (last_eval.state_before = UNAUTHORIZED /\ ~last_eval.in_block /\ ~last_eval.in_allow)

(* C28: for a storage device allowed with trust state MONITORED, the identifier
   is not in active_devices, and no sample of its mount is forwarded to
   report_activity, before the read-only remount of its mount was requested. *)
RemountBeforeMonitoring ==
  [][\A id \in Ids :
       ConnectedMonitored(id)' =>
         /\ id \in DOMAIN active_devices' =>
              (id \in DOMAIN mounts' => mounts'[id].ro_requested)
         /\ (samples' = samples + 1 /\ id \in DOMAIN mounts)
              => mounts[id].ro_requested]_vars

(* C29: an authorization prompt is surfaced only for an identifier whose record
   is MONITORED or AUTHORIZED at the moment the prompt is surfaced, never for one
   that is SUSPICIOUS or BLOCKED. *)
PromptOnlyForTrusted ==
  [][Len(prompt_log') > Len(prompt_log)
       => get_state(devices, prompt_log'[Len(prompt_log')].id)
            \in {MONITORED, AUTHORIZED}]_vars

(* C30: every promotion of a record from MONITORED to AUTHORIZED is followed by an
   authorization prompt for its identifier: once the thread that promoted it has
   finished its round (the maintenance loop sleeps, every observer is idle), a
   record that is AUTHORIZED has had a prompt surfaced. *)
AuthorizedWasPrompted ==
  \A id \in Ids :
    (/\ get_state(devices, id) = AUTHORIZED
     /\ maint.pc = "sleep"
     /\ \A p \in DOMAIN observers : observers[p].pc = "idle")
    => \E i \in DOMAIN prompt_log : prompt_log[i].id = id

\* the report of an observer returns SUSPICIOUS in this step
YieldsSuspicious(p) ==
  observers[p].pc = "eval1" /\ observers'[p].pc # "eval1" /\ observers'[p].ret = SUSPICIOUS
\* what the callback leaves alone when the report returned SUSPICIOUS
AlertFrame(p) ==
  /\ observers'[p].pc = "idle"
  /\ UNCHANGED << active_devices, blocked_devices_connected, allowlist, blocklist,
                  policy_file, unmount_requests, enforcers, mounts, prompt_log >>
\* a SUSPICIOUS record's identifier enters blocked_devices_connected in this step
SuspiciousBecomesBlocked(id) ==
  /\ get_state(devices, id) = SUSPICIOUS
  /\ id \notin blocked_devices_connected
  /\ id \in blocked_devices_connected'

(* C31 as stated: when report_activity returns SUSPICIOUS only the alert is
   raised (active_devices, blocked_devices_connected and both lists unchanged, no
   unmount requested, no enforcement thread started), and the device is blocked
   only by the Block decision of a later Add event. *)
SuspiciousBlockedOnlyByAdd ==
  [][/\ \A p \in DOMAIN observers : YieldsSuspicious(p) => AlertFrame(p)
     /\ \A id \in Ids : SuspiciousBecomesBlocked(id) => AddStep]_vars

(* C31, amended: when report_activity returns SUSPICIOUS only the alert is
   raised, and the device is blocked only by the Block decision of a later Add
   event or by the operator declining an authorization prompt for it. *)
SuspiciousOnlyAlerts ==
  [][/\ \A p \in DOMAIN observers : YieldsSuspicious(p) => AlertFrame(p)
     /\ \A id \in Ids :
          SuspiciousBecomesBlocked(id)
            => \/ AddStep /\ last_eval'.id = id /\ last_eval'.action = BLOCK
               \/ \E i \in JustAnswered :
                    prompt_log'[i].id = id /\ prompt_log'[i].answer = "declined"]_vars

\* a connected, tracked device was reported SUSPICIOUS and nothing enforces it
SuspiciousAlertedWitness ==
  /\ P0 \in DOMAIN observers
  /\ observers[P0].pc = "idle"
  /\ observers[P0].ret = SUSPICIOUS
  /\ get_state(devices, D1) = SUSPICIOUS
  /\ connected[D1]
  /\ D1 \in DOMAIN active_devices
  /\ D1 \in DOMAIN mounts
  /\ D1 \notin blocked_devices_connected
  /\ Running(enforcers[D1]) = 0

(* C32: every sample observed on a mount path is reported under the identifier
   of the device mounted at that path at the time: the callback that receives
   the sample belongs to a device mounted there. *)
SampleGoesToMountedDevice ==
  [][\A p \in DOMAIN observers :
       (observers[p].pc = "idle" /\ observers'[p].pc = "ra_check")
         => observers[p].dev.id \in MountedAt(p)]_vars

(* C33: UNAUTHORIZED is never the state of a ledger record, and neither is
   DETECTED: whatever the events, reports, sweeps and prompts, every record is
   MONITORED, AUTHORIZED, SUSPICIOUS or BLOCKED. *)
RecordsHaveConcreteState ==
  \A i \in 1..Len(devices) :
    devices[i].state \in {MONITORED, AUTHORIZED, SUSPICIOUS, BLOCKED}

\* a record made by an Add has been through the prompt and was declined
ConcreteStateWitness ==
  /\ Has(devices, D1)
  /\ StateOf(devices, D1) = BLOCKED
  /\ AnswersOf(prompt_log, D1, {"declined"}) # {}

(* C34: evaluate never returns through the default-action fallback: the decision
   of every Add is the one evaluate would give under any other configured default
   action, so runs that differ only in the default action decide alike. *)
DefaultNeverDecides ==
  [][AddStep =>
       \A dflt \in {ALLOW, BLOCK, ALERT} :
         PolicyEvaluate(blocklist, allowlist, devices, dflt, last_eval'.id)
           = last_eval'.action]_vars

\* with default action allow, an unlisted device that had become SUSPICIOUS was
\* evaluated to Block
DecidedAgainstDefaultWitness ==
  /\ default_action = ALLOW
  /\ last_eval.id = D1
  /\ last_eval.action = BLOCK
  /\ last_eval.state_before = SUSPICIOUS
  /\ ~last_eval.in_block /\ ~last_eval.in_allow

(* C35: the thresholds are strict. A report that leaves the window count at 10
   or less and the data at 100 MB or less (no executable) does not make the
   record SUSPICIOUS, one that brings the count to 11 or the data above 100 MB
   does; and a MONITORED record becomes AUTHORIZED, by a report or by the sweep,
   only when more than 30 seconds have passed since first_seen, and then it does
   unless it escalates. *)
StrictThresholds ==
  [][(samples' = samples + 1 /\ StateOf(devices, D1) \in {MONITORED, AUTHORIZED})
       => LET r == Rec(devices, D1)
              r2 == Rec(devices', D1)
              over == r2.window_files >= MAX_FILES_PER_MIN + 1
                        \/ r2.data_transferred_mb >= MAX_DATA_MB + 1
          IN /\ seq'.op = "report" => (r2.state = SUSPICIOUS <=> over)
             /\ (r.state = MONITORED /\ r2.state = AUTHORIZED)
                  => now - r.first_seen >= PROMOTION_TIME_SECS + 1
             /\ (r.state = MONITORED /\ now - r.first_seen = PROMOTION_TIME_SECS
                   /\ ~(seq'.op = "report" /\ over))
                  => r2.state = MONITORED]_vars

\* a report brought a MONITORED record of exactly 30 seconds' age to exactly 10
\* files in the window and exactly 100 MB, and the record is MONITORED still
AtThresholdWitness ==
  /\ seq.op = "report"
  /\ seq.arg = << 1, FALSE >>
  /\ Rec(devices, D1).window_files = MAX_FILES_PER_MIN
  /\ Rec(devices, D1).data_transferred_mb = MAX_DATA_MB
  /\ now - Rec(devices, D1).first_seen = PROMOTION_TIME_SECS
  /\ StateOf(devices, D1) = MONITORED

(* C36: between ledger calls that run one at a time (register, report_activity,
   the sweep, the decline's update_state), a MONITORED record has no executable
   detected, at most 10 files in its window and at most 100 MB of data. *)
MonitoredIsBelowThresholds ==
  \A i \in 1..Len(devices) :
    devices[i].state = MONITORED
      => /\ ~devices[i].executable_detected
         /\ devices[i].window_files <= MAX_FILES_PER_MIN
         /\ devices[i].data_transferred_mb <= MAX_DATA_MB

\* a tenth report inside one window has left the record MONITORED at the limit
MonitoredAtLimitWitness ==
  /\ seq.op = "report"
  /\ Has(devices, D1)
  /\ Rec(devices, D1).state = MONITORED
  /\ Rec(devices, D1).window_files = MAX_FILES_PER_MIN

(* C37: a SUSPICIOUS record stays SUSPICIOUS through every report_activity call
   and every sweep, also once the window has been reset and the promotion time
   has passed; its state changes only by update_state. *)
SuspiciousIsSticky ==
  [][\A i \in 1..Len(devices) :
       (devices[i].state = SUSPICIOUS /\ devices'[i].state # SUSPICIOUS)
         => /\ seq'.op = "set"
            /\ devices' = update_state(devices, devices[i].device_id, BLOCKED)]_vars

\* a report after the window was reset: no rule of evaluate fires for the record,
\* it is older than the promotion time, and it is SUSPICIOUS still
StillSuspiciousWitness ==
  /\ seq.op = "report"
  /\ Has(devices, D1)
  /\ Rec(devices, D1).state = SUSPICIOUS
  /\ ~Escalates(Rec(devices, D1))
  /\ Rec(devices, D1).window_files <= MAX_FILES_PER_MIN
  /\ Rec(devices, D1).last_seen = now
  /\ now - Rec(devices, D1).first_seen > PROMOTION_TIME_SECS

\* C38 as stated: a Remove event leaves the ledger as it was; no step deletes a
\* record or changes a first_seen; and the Add of a device that was SUSPICIOUS or
\* BLOCKED when it was removed is decided BLOCK.
RemoveStep == \E id \in Ids : removes'[id] = removes[id] + 1
RecordsKept ==
  \A i \in 1..Len(devices) :
    /\ i <= Len(devices')
    /\ devices'[i].device_id = devices[i].device_id
    /\ devices'[i].first_seen = devices[i].first_seen
Reconnect == AddStep /\ removes[last_eval'.id] > 0
LedgerKeptAcrossRemove ==
  [][/\ RemoveStep => devices' = devices
     /\ RecordsKept
     /\ (Reconnect /\ last_eval'.state_before \in {SUSPICIOUS, BLOCKED})
          => last_eval'.action = BLOCK]_vars

(* C38: a Remove event leaves the ledger as it was; no step deletes a record or
   changes a first_seen, so the promotion time of a reconnected device counts
   from its first contact; and the Add of a device that was SUSPICIOUS or BLOCKED
   when it was removed is decided BLOCK, unless the device is on the allowlist
   and not on the blocklist. *)
LedgerKeptAndListsFirst ==
  [][/\ RemoveStep => devices' = devices
     /\ RecordsKept
     /\ (/\ Reconnect
         /\ last_eval'.state_before \in {SUSPICIOUS, BLOCKED}
         /\ last_eval'.in_block \/ ~last_eval'.in_allow)
          => last_eval'.action = BLOCK]_vars

\* a device escalated to SUSPICIOUS, removed and added again: the record is the
\* one of the first contact and the Add was decided BLOCK
ReconnectBlockedWitness ==
  /\ removes[D1] > 0
  /\ connected[D1]
  /\ last_eval.id = D1
  /\ last_eval.state_before = SUSPICIOUS
  /\ ~last_eval.in_block
  /\ last_eval.action = BLOCK
  /\ Rec(devices, D1).first_seen = 0
  /\ now > 0

(* C39: the Add event of a device that is not a storage device leaves
   active_devices and blocked_devices_connected as they were and starts neither
   an enforcement task nor a mount-wait thread, whatever the decision; no
   unmount is ever requested for such a device. *)
OtherClassAddDoesNothing ==
  [][\A id \in ClassIds :
       device_type(id) # STORAGE =>
         /\ (AddStep /\ last_eval'.id = id)
              => /\ active_devices' = active_devices
                 /\ blocked_devices_connected' = blocked_devices_connected
                 /\ enforcers' = enforcers
                 /\ audits' = audits
                 /\ observers' = observers
                 /\ mounts' = mounts
         /\ unmount_requests'[id] = 0
         /\ enforcers'[id] = NoTasks]_vars

\* the blocklisted device of the other class was added and decided BLOCK; it is
\* connected, outside blocked_devices_connected and without an enforcement task
OtherClassBlockedWitness ==
  /\ connected["k1"]
  /\ last_eval.id = "k1"
  /\ last_eval.action = BLOCK
  /\ "k1" \notin blocked_devices_connected
  /\ enforcers["k1"] = NoTasks

(* C40: for a file event whose path has an executable extension, or whose file
   exists with the user-execute bit set, the sample handed to the callback has
   is_executable = TRUE, and the report sets executable_detected and leaves the
   record SUSPICIOUS. *)
ExecutableIsReported ==
  (/\ seq.op = "notify"
   /\ seq.arg.ext_executable \/ (seq.arg.exists /\ seq.arg.mode_x))
    => /\ seq.ret.is_executable
       /\ Rec(devices, seq.id).executable_detected
       /\ Rec(devices, seq.id).state = SUSPICIOUS

====
